---- MODULE Spec2Model ----
(***************************************************************************)
(* Model of pyiga's assembly core (pyiga/assemble_tools_cy.pyx): support   *)
(* index helpers, index linearization, the per-entry evaluation            *)
(* (assemble_impl), the sparsity traversal (generic_assemble_2d/3d), the   *)
(* chunking parallel driver, multi_assemble, the tile index preparation    *)
(* and the tile-wise MatrixEntryAccumulator.                               *)
(*                                                                         *)
(* Conventions.  Python/C indices are 0-based, TLA+ sequences 1-based: a   *)
(* C array a[0..n-1] is the sequence <<a[0], ..., a[n-1]>> and a[k] is     *)
(* read as a[k+1].  An IntInterval {a, b} is the pair <<a, b>>.  A sparse  *)
(* matrix is a function from its set of stored coordinates <<r, c>> to the *)
(* stored value.  Entry values (C doubles) are integers; the only sums the *)
(* model forms are the ones the code forms.                                *)
(***************************************************************************)
EXTENDS Integers, Sequences, FiniteSets, TLC

(***************************************************************************)
(* Bounds of the model.                                                    *)
(***************************************************************************)
\* largest dof count of an axis with an arbitrary support table (2-D)
MaxDofs == 3
\* largest mesh-element index bounding the support intervals
MaxElem == 2
\* largest dof count of an axis in the 3-D configurations
MaxDofs3 == 2
\* largest dof count of axis 0 when it carries a B-spline support table
MaxDofs0 == 8
\* largest spline degree of the B-spline support tables
MaxDeg == 1
\* largest configured thread count (pyiga.get_max_threads())
MaxThreads == 2
\* find_joint_support_functions alone: table length and element bound
MaxTabLen == 3
MaxTabElem == 3
\* chunk_tasks alone: longest task list and largest num_chunks
MaxTasks == 9
MaxNumChunks == 8
\* index round trips: largest dof count per axis
MaxSeqDofs == 3
\* MatrixEntryAccumulator: tuple width, buffer size N, elements processed in
\* all and per call of process
UnsignedBits == 4
MaxWidth == 2
MaxCap == 2
MaxStreamLen == 3
MaxBatch == 2
\* prepare_tile_indices3: dofs of the grid, pairs in the input list
MaxTileDofs == 2
MaxTilePairs == 2
\* multi_assemble: thread counts, dofs of the grid, pairs in the input list
MaxPoolThreads == 4
MaxMultiDofs == 2
MaxPairs == 3
\* get_thread_pool: concurrent first callers
MaxCallers == 3
\* constructors: quadrature nodes at which the Jacobian is sampled
MaxNodes == 2
\* entry kernels: quadrature nodes along axis 0 of the 2-D mass kernel
MaxKernNodes == 2
\* significant bits of the doubles of the entry kernels (the hardware has 53)
Mantissa == 3

\* ---- constants of the program
\* unsigned[16] old_indices
NumOldIndices == 16
\* 0xffffffff, the all-ones value of the type unsigned, which __init__ stores
\* into every slot of old_indices; unsigned is modelled UnsignedBits wide
Sentinel == 2 ^ UnsignedBits - 1

VARIABLES
    \* ---- the assembler (BaseAssembler2D / BaseAssembler3D fields)
    ndofs,          \* size_t[d] ndofs
    meshsupp,       \* vector of d support tables, each a sequence of <<lo, hi>>
    nqp,            \* quadrature nodes per mesh element
    kernel,         \* "mass" or "stiff": the concrete assembler class
    \* ---- generic_assemble_{2d,3d}_parallel
    num_threads,    \* pyiga.get_max_threads() as read by the driver
    threadpool,     \* _threadpool: 0 is None, otherwise its max_workers
    pc,             \* position of the calling thread
    chunks,         \* list(chunk_tasks(range(ndofs[0]), 4*num_threads))
    fut,            \* one future per chunk: state, emitted triplets, matrix
    acc,            \* running value of sum(results)
    nsum,           \* number of results sum() has consumed
    ret,            \* the returned matrix (and the triplets of a direct run)
    \* ---- one call of find_joint_support_functions
    fs_tab,         \* the support table passed
    fs_i,           \* the index passed (-1 before the call)
    fs_out,         \* the IntInterval returned
    \* ---- one call of chunk_tasks
    ct_tasks,       \* the task list passed
    ct_num,         \* num_chunks
    ct_out,         \* list(chunk_tasks(tasks, num_chunks))
    ct_done,        \* the generator has been exhausted
    \* ---- to_seq / from_seq round trips
    sq_nd,          \* the ndofs array
    sq_op,          \* which round trip was run
    sq_in,          \* its input
    sq_mid,         \* the intermediate value
    sq_out,         \* its result
    sq_free,        \* from_seq3 (free function) of the same scalar
    \* ---- one call of assemble_impl
    ai_i,           \* the multi-index i passed (<<>> before the call)
    ai_j,           \* the multi-index j passed
    ai_run,         \* [val, calls]: the double returned, the kernel calls made
    \* ---- one MatrixEntryAccumulator
    mea_idx,        \* self.idx
    mea_num_indices,\* self.num_indices
    mea_cap,        \* N, the length of the buffer self._result
    mea_result,     \* self._result, positions 0..N-1 stored at 1..N
    mea_old_indices,\* self.old_indices
    mea_stream,     \* every (index tuple, value) passed to process so far
    mea_oob,        \* a write outside self._result has happened
    mea_st,         \* "ok", or "crashed" by a write outside the buffer
    mea_calls,      \* the lengths of the non-empty parts passed to process
    \* ---- one call of prepare_tile_indices3
    tile_ms,        \* meshsupp argument
    tile_nd,        \* numdofs argument
    tile_ij,        \* ij_arr argument
    tile_out,       \* the rows returned
    tile_st,        \* "none", "returned" or "raised"
    \* ---- multi_assemble of one assembler
    ma_num_threads, \* pyiga.get_max_threads()
    ma_threadpool,  \* _threadpool: 0 is None, else its _max_workers
    ma_asm_pool,    \* len(self._asm_pool)
    ma_indices,     \* the argument indices of the calls
    ma_result,      \* the array the last call returned
    ma_st,          \* "none", "returned" or "raised"
    \* ---- callers of get_thread_pool
    gp_pc,          \* per caller: "idle", "constructing" or "done"
    gp_got,         \* per caller: the pool returned to it (0: none yet)
    gp_threadpool,  \* _threadpool: 0 is None, else the identity of a pool
    gp_pools,       \* max_workers of every ThreadPoolExecutor constructed
    gp_max,         \* pyiga.get_max_threads()
    \* ---- one call of an assembler constructor
    cons_cls,       \* the class constructed
    cons_nkvs,      \* len(kvs)
    cons_geodim,    \* geo.dim
    cons_jac,       \* geo.grid_jacobian(gaussgrid): one matrix per node
    cons_pc,        \* position inside __init__
    cons_base,      \* base_init: "no", "done" or "aborted"
    cons_det,       \* geo_det, one value per node
    cons_weights,   \* the weight tensor stored: geo_weights or B, per node
    \* ---- one evaluation of an entry kernel for (u, v) and for (v, u)
    kn_kind,        \* which combine_* function
    kn_W,           \* J (mass) or B (stiffness) on the node grid
    kn_Vu,          \* the samples of the first function, per axis
    kn_Vv,          \* the samples of the second function, per axis
    kn_out,         \* the values returned, in doubles and in exact arithmetic
    \* ---- one run of the traversal of generic_assemble, loop by loop
    tr_start,       \* chunk_start
    tr_end,         \* chunk_end
    tr_i,           \* the row multi-index i
    tr_j,           \* the column multi-index j
    tr_pc,          \* "row", "col", "rownext" or "done"
    tr_rows,        \* the row multi-indices visited, in order
    tr_cols         \* per visited row, the column multi-indices visited

asmVars == <<ndofs, meshsupp, nqp, kernel>>

drvVars == <<num_threads, threadpool, pc, chunks, fut, acc, nsum, ret>>

suppVars == <<fs_tab, fs_i, fs_out>>

chunkVars == <<ct_tasks, ct_num, ct_out, ct_done>>

seqVars == <<sq_nd, sq_op, sq_in, sq_mid, sq_out, sq_free>>

implVars == <<ai_i, ai_j, ai_run>>
\* MatrixEntryAccumulator

accVars == <<mea_idx, mea_num_indices, mea_cap, mea_result, mea_old_indices,
             mea_stream, mea_oob, mea_st, mea_calls>>
\* prepare_tile_indices3
tileVars == <<tile_ms, tile_nd, tile_ij, tile_out, tile_st>>
\* multi_assemble
multiVars == <<ma_num_threads, ma_threadpool, ma_asm_pool, ma_indices,
               ma_result, ma_st>>

\* get_thread_pool
poolVars == <<gp_pc, gp_got, gp_threadpool, gp_pools, gp_max>>
\* assembler constructors
ctorVars == <<cons_cls, cons_nkvs, cons_geodim, cons_jac, cons_pc, cons_base,
              cons_det, cons_weights>>
\* entry kernels
kernVars == <<kn_kind, kn_W, kn_Vu, kn_Vv, kn_out>>
\* traversal loops
travVars == <<tr_start, tr_end, tr_i, tr_j, tr_pc, tr_rows, tr_cols>>

vars == <<asmVars, drvVars, suppVars, chunkVars, seqVars, implVars, accVars,
          tileVars, multiVars, poolVars, ctorVars, kernVars, travVars>>

\* what each specification leaves alone
exceptDrv == <<suppVars, chunkVars, seqVars, implVars,
    accVars, tileVars, multiVars,
    poolVars, ctorVars, kernVars, travVars>>
exceptSupp == <<asmVars, drvVars, chunkVars, seqVars, implVars,
    accVars, tileVars, multiVars,
    poolVars, ctorVars, kernVars, travVars>>
exceptChunk == <<asmVars, drvVars, suppVars, seqVars, implVars,
    accVars, tileVars, multiVars,
    poolVars, ctorVars, kernVars, travVars>>
exceptSeq == <<asmVars, drvVars, suppVars, chunkVars, implVars,
    accVars, tileVars, multiVars,
    poolVars, ctorVars, kernVars, travVars>>
exceptImpl == <<drvVars, suppVars, chunkVars, seqVars,
    accVars, tileVars, multiVars,
    poolVars, ctorVars, kernVars, travVars>>
exceptAcc == <<asmVars, drvVars, suppVars, chunkVars, seqVars, implVars,
    tileVars, multiVars,
    poolVars, ctorVars, kernVars, travVars>>
exceptTile == <<asmVars, drvVars, suppVars, chunkVars, seqVars, implVars,
    accVars, multiVars,
    poolVars, ctorVars, kernVars, travVars>>
exceptPool == <<asmVars, drvVars, suppVars, chunkVars, seqVars, implVars,
    accVars, tileVars, multiVars, ctorVars, kernVars, travVars>>
exceptCtor == <<asmVars, drvVars, suppVars, chunkVars, seqVars, implVars,
    accVars, tileVars, multiVars, poolVars, kernVars, travVars>>
exceptKern == <<asmVars, drvVars, suppVars, chunkVars, seqVars, implVars,
    accVars, tileVars, multiVars, poolVars, ctorVars, travVars>>
exceptTrav == <<drvVars, suppVars, chunkVars, seqVars, implVars,
    accVars, tileVars, multiVars, poolVars, ctorVars, kernVars>>
exceptMulti == <<drvVars, suppVars, chunkVars, seqVars, implVars,
    accVars, tileVars,
    poolVars, ctorVars, kernVars, travVars>>

(***************************************************************************)
(* Small helpers.                                                          *)
(***************************************************************************)
Max2(a, b) == IF a >= b THEN a ELSE b
Min2(a, b) == IF a <= b THEN a ELSE b

\* Python range(a, b) as a sequence
Range(a, b) == [k \in 1..Max2(b - a, 0) |-> a + k - 1]

RECURSIVE SumSeq(_)
SumSeq(s) == IF s = <<>> THEN 0 ELSE Head(s) + SumSeq(Tail(s))

RECURSIVE ProdSeq(_)
ProdSeq(s) == IF s = <<>> THEN 1 ELSE Head(s) * ProdSeq(Tail(s))

RECURSIVE Flatten(_)
Flatten(ss) == IF ss = <<>> THEN <<>> ELSE Head(ss) \o Flatten(Tail(ss))

(***************************************************************************)
(* IntInterval, make_intv, intersect_intervals.                            *)
(***************************************************************************)
make_intv(a, b) == <<a, b>>

intersect_intervals(intva, intvb) ==
    make_intv(Max2(intva[1], intvb[1]), Min2(intva[2], intvb[2]))

(***************************************************************************)
(* find_joint_support_functions(meshsupp, i): the two scans.               *)
(* tab is one axis' table; tab[f+1] = <<meshsupp[f,0], meshsupp[f,1]>>.    *)
(***************************************************************************)
\* faulty variant: the left scan with ">=" in place of ">"
RECURSIVE ScanLeft_Ge(_, _, _, _)
ScanLeft_Ge(tab, i, j, minj) ==
    IF j >= 0 /\ tab[j + 1][2] >= tab[i + 1][1]
    THEN ScanLeft_Ge(tab, i, j - 1, j)
    ELSE minj

RECURSIVE ScanLeft(_, _, _, _)
ScanLeft(tab, i, j, minj) ==
    IF j >= 0 /\ tab[j + 1][2] > tab[i + 1][1]
    THEN ScanLeft(tab, i, j - 1, j)
    ELSE minj

\* faulty variant: the right scan with "<=" in place of "<"
RECURSIVE ScanRight_Le(_, _, _, _)
ScanRight_Le(tab, i, j, maxj) ==
    IF j < Len(tab) /\ tab[j + 1][1] <= tab[i + 1][2]
    THEN ScanRight_Le(tab, i, j + 1, j)
    ELSE maxj

RECURSIVE ScanRight(_, _, _, _)
ScanRight(tab, i, j, maxj) ==
    IF j < Len(tab) /\ tab[j + 1][1] < tab[i + 1][2]
    THEN ScanRight(tab, i, j + 1, j)
    ELSE maxj

\* faulty variant: the upper bound is maxj, not maxj + 1
find_joint_support_functions_NoPlusOne(tab, i) ==
    make_intv(ScanLeft(tab, i, i, i), ScanRight(tab, i, i + 1, i))

\* return make_intv(minj, maxj+1)
find_joint_support_functions(tab, i) ==
    make_intv(ScanLeft(tab, i, i, i), ScanRight(tab, i, i + 1, i) + 1)

(***************************************************************************)
(* Linearization.  to_seq / from_seq of BaseAssembler2D and                *)
(* BaseAssembler3D, and the free function from_seq3.  nd is the ndofs      *)
(* array.  Division is C's unsigned division (\div on naturals).           *)
(***************************************************************************)
to_seq2(nd, ii) == ii[1] * nd[2] + ii[2]

\* faulty variant: divides by the dof count of the wrong axis
from_seq2_WrongAxis(nd, i) == <<i \div nd[1], i % nd[2]>>

from_seq2(nd, i) == <<i \div nd[2], i % nd[2]>>

to_seq3m(nd, ii) == (ii[1] * nd[2] + ii[2]) * nd[3] + ii[3]

from_seq3m(nd, i) ==
    LET out2 == i % nd[3]
        i1   == i \div nd[3]
        out1 == i1 % nd[2]
        i2   == i1 \div nd[2]
    IN  <<i2, out1, out2>>

from_seq3(i, nd) ==
    LET out2 == i % nd[3]
        i1   == i \div nd[3]
        out1 == i1 % nd[2]
        i2   == i1 \div nd[2]
    IN  <<i2, out1, out2>>

\* the method of the assembler at hand (2-D or 3-D class)
to_seq(nd, ii) == IF Len(nd) = 2 THEN to_seq2(nd, ii) ELSE to_seq3m(nd, ii)
from_seq(nd, i) == IF Len(nd) = 2 THEN from_seq2(nd, i) ELSE from_seq3m(nd, i)

(***************************************************************************)
(* next_lexicographic2 / next_lexicographic3: advance cur within           *)
(* [start, end); the result is [cur, r] with r the int returned.  The loop *)
(* "for i in range(d)" starts at component 0.                              *)
(***************************************************************************)
\* faulty variant: the last component is advanced first
RECURSIVE NextLexFrom_LastFirst(_, _, _, _, _)
NextLexFrom_LastFirst(d, i, cur, start, end) ==
    LET c1 == [cur EXCEPT ![d - i] = @ + 1] IN
    IF c1[d - i] = end[d - i]
    THEN IF i = d - 1
         THEN [cur |-> c1, r |-> 0]
         ELSE NextLexFrom_LastFirst(d, i + 1, [c1 EXCEPT ![d - i] = start[d - i]],
                                    start, end)
    ELSE [cur |-> c1, r |-> 1]

\* faulty variant: the end of the first component ends the enumeration
NextLexFrom_StopsEarly(d, i, cur, start, end) ==
    LET c1 == [cur EXCEPT ![i + 1] = @ + 1] IN
    [cur |-> c1, r |-> IF c1[i + 1] = end[i + 1] THEN 0 ELSE 1]

RECURSIVE NextLexFrom(_, _, _, _, _)
NextLexFrom(d, i, cur, start, end) ==
    LET c1 == [cur EXCEPT ![i + 1] = @ + 1] IN
    IF c1[i + 1] = end[i + 1]
    THEN IF i = d - 1
         THEN [cur |-> c1, r |-> 0]
         ELSE NextLexFrom(d, i + 1, [c1 EXCEPT ![i + 1] = start[i + 1]], start, end)
    ELSE [cur |-> c1, r |-> 1]

next_lexicographic2(cur, start, end) == NextLexFrom(2, 0, cur, start, end)
next_lexicographic3(cur, start, end) == NextLexFrom(3, 0, cur, start, end)

next_lexicographic(cur, start, end) ==
    IF Len(cur) = 2 THEN next_lexicographic2(cur, start, end)
                    ELSE next_lexicographic3(cur, start, end)

(***************************************************************************)
(* Entry kernels.  combine_mass_* / combine_stiff_* sum products of the    *)
(* precomputed basis samples and geometry weights over the node range they *)
(* are handed; that quadrature data is produced outside this file.  The    *)
(* model keeps what the callers can observe: the double returned is a      *)
(* fixed function of the arguments (the restricted weight view             *)
(* [g_sta, g_end) and the two sample pointers, i.e. g_sta and the dof      *)
(* indices).  A mass entry of two overlapping functions is positive; a     *)
(* stiffness entry may be exactly zero.                                    *)
(***************************************************************************)
NodeCount(g_sta, g_end) ==
    ProdSeq([k \in 1..Len(g_sta) |-> g_end[k] - g_sta[k]])

combine_mass(g_sta, g_end, i, j) ==
    NodeCount(g_sta, g_end) + SumSeq(g_sta) + ((SumSeq(i) + SumSeq(j)) % 3)

combine_stiff(g_sta, g_end, i, j) ==
    ((SumSeq(i) + SumSeq(j)) % 3) * NodeCount(g_sta, g_end)

EntryKernel(g_sta, g_end, i, j) ==
    IF kernel = "mass" THEN combine_mass(g_sta, g_end, i, j)
                       ELSE combine_stiff(g_sta, g_end, i, j)

(***************************************************************************)
(* assemble_impl(i, j) of MassAssembler2D/3D and StiffnessAssembler2D/3D.  *)
(* The loop over the axes k returns 0.0 at the first empty intersection;   *)
(* otherwise the kernel is called once.  The run is the record             *)
(* [val, calls]: the double returned and the kernel invocations made, each *)
(* with the node range [g_sta, g_end) it was given.                        *)
(***************************************************************************)
SuppOf(k, f) == make_intv(meshsupp[k + 1][f + 1][1], meshsupp[k + 1][f + 1][2])

\* faulty variant: the emptiness test "a > b" in place of "a >= b"
RECURSIVE AssembleAxes_Gt(_, _, _, _, _)
AssembleAxes_Gt(k, i, j, g_sta, g_end) ==
    IF k = Len(ndofs)
    THEN [val   |-> EntryKernel(g_sta, g_end, i, j),
          calls |-> <<[fn |-> kernel, g_sta |-> g_sta, g_end |-> g_end,
                       i |-> i, j |-> j]>>]
    ELSE LET intv == intersect_intervals(SuppOf(k, i[k + 1]), SuppOf(k, j[k + 1])) IN
         IF intv[1] > intv[2]
         THEN [val |-> 0, calls |-> <<>>]
         ELSE AssembleAxes_Gt(k + 1, i, j,
                              Append(g_sta, nqp * intv[1]),
                              Append(g_end, nqp * intv[2]))

RECURSIVE AssembleAxes(_, _, _, _, _)
AssembleAxes(k, i, j, g_sta, g_end) ==
    IF k = Len(ndofs)
    THEN [val   |-> EntryKernel(g_sta, g_end, i, j),
          calls |-> <<[fn |-> kernel, g_sta |-> g_sta, g_end |-> g_end,
                       i |-> i, j |-> j]>>]
    ELSE LET intv == intersect_intervals(SuppOf(k, i[k + 1]), SuppOf(k, j[k + 1])) IN
         IF intv[1] >= intv[2]
         THEN [val |-> 0, calls |-> <<>>]
         ELSE AssembleAxes(k + 1, i, j,
                           Append(g_sta, nqp * intv[1]),
                           Append(g_end, nqp * intv[2]))

assemble_impl_run(i, j) == AssembleAxes(0, i, j, <<>>, <<>>)

assemble_impl(i, j) == assemble_impl_run(i, j).val

\* BaseAssembler.assemble(i, j): delinearize, then assemble_impl
assemble(i, j) == assemble_impl(from_seq(ndofs, i), from_seq(ndofs, j))

(***************************************************************************)
(* generic_assemble_2d / generic_assemble_3d: the traversal.  Both loops   *)
(* are "while True: body; if not next_lexicographic(...): break".  The     *)
(* value is the triplet list <<entries_i[n], entries_j[n], entries[n]>>.   *)
(***************************************************************************)
\* faulty variant: the mirrored triplet is not emitted
EmitPair_NoMirror(i, j, ii, jj) ==
    IF jj >= ii THEN <<<<ii, jj, assemble_impl(i, j)>>>> ELSE <<>>

\* the triplets pushed for one column j of row i
EmitPair(i, j, ii, jj) ==
    IF jj >= ii
    THEN LET entry == assemble_impl(i, j)
         IN  IF ii # jj THEN <<<<ii, jj, entry>>, <<jj, ii, entry>>>>
                        ELSE <<<<ii, jj, entry>>>>
    ELSE <<>>

\* the triplets pushed by the column loop from column j on
RECURSIVE ColumnLoop(_, _, _, _, _)
ColumnLoop(i, ii, j, neigh_j_start, neigh_j_end) ==
    LET jj  == to_seq(ndofs, j)
        e1  == EmitPair(i, j, ii, jj)
        nxt == next_lexicographic(j, neigh_j_start, neigh_j_end)
    IN  IF nxt.r = 0 THEN e1
        ELSE e1 \o ColumnLoop(i, ii, nxt.cur, neigh_j_start, neigh_j_end)

NeighborBox(i) ==
    [k \in 1..Len(ndofs) |-> find_joint_support_functions(meshsupp[k], i[k])]

RowBody(i) ==
    LET ii   == to_seq(ndofs, i)
        intv == NeighborBox(i)
        neigh_j_start == [k \in 1..Len(ndofs) |-> intv[k][1]]
        neigh_j_end   == [k \in 1..Len(ndofs) |-> intv[k][2]]
    IN  ColumnLoop(i, ii, neigh_j_start, neigh_j_start, neigh_j_end)

\* the triplets pushed by the row loop from row i on
RECURSIVE RowLoop(_, _, _)
RowLoop(i, dof_start, dof_end) ==
    LET e1  == RowBody(i)
        nxt == next_lexicographic(i, dof_start, dof_end)
    IN  IF nxt.r = 0 THEN e1
        ELSE e1 \o RowLoop(nxt.cur, dof_start, dof_end)

DofStart(chunk_start) ==
    [k \in 1..Len(ndofs) |-> IF k = 1 /\ chunk_start >= 0 THEN chunk_start ELSE 0]

DofEnd(chunk_end) ==
    [k \in 1..Len(ndofs) |-> IF k = 1 /\ chunk_end >= 0 THEN chunk_end ELSE ndofs[k]]

Traverse(chunk_start, chunk_end) ==
    RowLoop(DofStart(chunk_start), DofStart(chunk_start), DofEnd(chunk_end))

(***************************************************************************)
(* Sparse matrices.  coo_matrix((entries, (entries_i, entries_j))).tocsr() *)
(* sums the values of duplicate coordinates and stores every coordinate    *)
(* that received a triplet (explicit zeros included).  The sum of two      *)
(* sparse matrices stores the coordinates of either operand whose summed   *)
(* value is not zero.  sum(results) starts from the int 0, and 0 + M is a  *)
(* copy of M.                                                              *)
(***************************************************************************)
EmptyMat == [p \in {} |-> 0]

\* the values of the triplets at coordinate p, in emission order
ValuesAt(trips, p) ==
    LET at == SelectSeq(trips, LAMBDA t : t[1] = p[1] /\ t[2] = p[2])
    IN  [n \in 1..Len(at) |-> at[n][3]]

CooToCsr(trips) ==
    [p \in {<<trips[n][1], trips[n][2]>> : n \in 1..Len(trips)}
        |-> SumSeq(ValuesAt(trips, p))]

MatGet(m, p) == IF p \in DOMAIN m THEN m[p] ELSE 0

MatAdd(a, b) ==
    LET both == DOMAIN a \cup DOMAIN b IN
    [p \in {q \in both : MatGet(a, q) + MatGet(b, q) # 0}
        |-> MatGet(a, p) + MatGet(b, p)]

\* faulty variant: the running sum is overwritten instead of added to
PySumStep_Overwrite(n, a, r) == r

\* one step of Python's sum(): acc + r, where acc is 0 before the first r
PySumStep(n, a, r) == IF n = 0 THEN r ELSE MatAdd(a, r)

generic_assemble(chunk_start, chunk_end) ==
    LET trips == Traverse(chunk_start, chunk_end)
    IN  [trips |-> trips, mat |-> CooToCsr(trips)]

(***************************************************************************)
(* chunk_tasks(tasks, num_chunks).                                         *)
(***************************************************************************)
\* faulty variant: every chunk is one task longer than n
RECURSIVE ChunksFrom_OneLonger(_, _, _)
ChunksFrom_OneLonger(tasks, i, n) ==
    IF i >= Len(tasks) THEN <<>>
    ELSE <<SubSeq(tasks, i + 1, Min2(i + n + 1, Len(tasks)))>>
         \o ChunksFrom_OneLonger(tasks, i + n + 1, n)

\* for i in range(0, len(tasks), n): yield tasks[i:i+n]
RECURSIVE ChunksFrom(_, _, _)
ChunksFrom(tasks, i, n) ==
    IF i >= Len(tasks) THEN <<>>
    ELSE <<SubSeq(tasks, i + 1, Min2(i + n, Len(tasks)))>>
         \o ChunksFrom(tasks, i + n, n)

\* faulty variant: the chunk length without the "+ 1"; a length of 0 is taken as 1
chunk_tasks_Overlap(tasks, num_chunks) ==
    [c \in 1..Len(ChunksFrom(tasks, 0, (Len(tasks) \div num_chunks) + 1)) |->
        SubSeq(tasks, Max2(1, (c - 1) * ((Len(tasks) \div num_chunks) + 1)),
               Min2(c * ((Len(tasks) \div num_chunks) + 1), Len(tasks)))]

chunk_tasks(tasks, num_chunks) ==
    ChunksFrom(tasks, 0, (Len(tasks) \div num_chunks) + 1)

(***************************************************************************)
(* Support tables the assemblers are constructed from                      *)
(* (kv.mesh_support_idx_all() of each knot vector): every function has a   *)
(* non-empty half-open interval of mesh elements, and the left endpoints   *)
(* are non-decreasing in the function index.                               *)
(***************************************************************************)
Intervals == {iv \in (0..MaxElem) \X (0..MaxElem) : iv[1] < iv[2]}

LeftSorted(tab) == \A f \in 1..(Len(tab) - 1) : tab[f][1] <= tab[f + 1][1]

RightSorted(tab) == \A f \in 1..(Len(tab) - 1) : tab[f][2] <= tab[f + 1][2]

SupportTables(n) == {tab \in [1..n -> Intervals] : LeftSorted(tab)}

\* the table of an open-knot B-spline basis of degree p with n functions
BsplineTable(p, n) ==
    [f \in 1..n |-> <<Max2(0, (f - 1) - p), Min2(f, n - p)>>]

SmallTables == UNION {SupportTables(n) : n \in 1..MaxDofs}

LongTables == {BsplineTable(p, MaxDofs0) : p \in 0..MaxDeg}

Tables3 ==
    UNION {{BsplineTable(p, n) : n \in (p + 1)..MaxDofs3} : p \in 0..MaxDeg}

AsmConfigs ==
    {<<t0, t1>> : t0 \in SmallTables \cup LongTables, t1 \in SmallTables}
    \cup {<<t0, t1, t2>> : t0 \in Tables3, t1 \in Tables3, t2 \in Tables3}

\* kv.p: every mesh element lies in the support of exactly p + 1 functions
Covering(tab, e) == {f \in 1..Len(tab) : tab[f][1] <= e /\ e < tab[f][2]}

MaxOfSet(S) ==
    IF S = {} THEN 0
    ELSE LET x == CHOOSE y \in S : \A z \in S : z <= y IN x

KvDegree(tab) ==
    MaxOfSet({Cardinality(Covering(tab, tab[f][1])) : f \in 1..Len(tab)}) - 1

\* base_init: ndofs and meshsupp from the knot vectors, nqp = max degree + 1
AsmInitFrom(configs) ==
    /\ meshsupp \in configs
    /\ ndofs = [k \in 1..Len(meshsupp) |-> Len(meshsupp[k])]
    /\ nqp = MaxOfSet({KvDegree(meshsupp[k]) : k \in 1..Len(meshsupp)}) + 1
    /\ kernel \in {"mass", "stiff"}

NDofsTotal == ProdSeq(ndofs)

(***************************************************************************)
(* Values of the variables of the operations a specification does not run. *)
(***************************************************************************)
AsmIdle ==
    /\ meshsupp = <<>>
    /\ ndofs = <<>>
    /\ nqp = 0
    /\ kernel = "none"

DrvIdle ==
    /\ num_threads = 0
    /\ threadpool = 0
    /\ pc = "idle"
    /\ chunks = <<>>
    /\ fut = <<>>
    /\ acc = <<>>
    /\ nsum = 0
    /\ ret = [trips |-> <<>>, mat |-> <<>>]

SuppIdle ==
    /\ fs_tab = <<>>
    /\ fs_i = -1
    /\ fs_out = <<0, 0>>

ChunkIdle ==
    /\ ct_tasks = <<>>
    /\ ct_num = 0
    /\ ct_out = <<>>
    /\ ct_done = FALSE

SeqIdle ==
    /\ sq_nd = <<>>
    /\ sq_op = "none"
    /\ sq_in = <<>>
    /\ sq_mid = <<>>
    /\ sq_out = <<>>
    /\ sq_free = <<>>

ImplIdle ==
    /\ ai_i = <<>>
    /\ ai_j = <<>>
    /\ ai_run = [val |-> 0, calls |-> <<>>]

AccIdle ==
    /\ mea_idx = -1
    /\ mea_num_indices = 0
    /\ mea_cap = 0
    /\ mea_result = <<>>
    /\ mea_old_indices = <<>>
    /\ mea_stream = <<>>
    /\ mea_oob = FALSE
    /\ mea_st = "none"
    /\ mea_calls = <<>>

TileIdle ==
    /\ tile_ms = <<>>
    /\ tile_nd = <<>>
    /\ tile_ij = <<>>
    /\ tile_out = <<>>
    /\ tile_st = "none"

MultiIdle ==
    /\ ma_num_threads = 0
    /\ ma_threadpool = 0
    /\ ma_asm_pool = 0
    /\ ma_indices = <<>>
    /\ ma_result = <<>>
    /\ ma_st = "none"

PoolIdle ==
    /\ gp_pc = <<>>
    /\ gp_got = <<>>
    /\ gp_threadpool = 0
    /\ gp_pools = <<>>
    /\ gp_max = 0

CtorIdle ==
    /\ cons_cls = "none"
    /\ cons_nkvs = 0
    /\ cons_geodim = 0
    /\ cons_jac = <<>>
    /\ cons_pc = "none"
    /\ cons_base = "no"
    /\ cons_det = <<>>
    /\ cons_weights = <<>>

KernIdle ==
    /\ kn_kind = "none"
    /\ kn_W = <<>>
    /\ kn_Vu = <<>>
    /\ kn_Vv = <<>>
    /\ kn_out = <<>>

TravIdle ==
    /\ tr_start = 0
    /\ tr_end = 0
    /\ tr_i = <<>>
    /\ tr_j = <<>>
    /\ tr_pc = "none"
    /\ tr_rows = <<>>
    /\ tr_cols = <<>>

MoreIdle == PoolIdle /\ CtorIdle /\ KernIdle /\ TravIdle

NewIdle == AccIdle /\ TileIdle /\ MultiIdle /\ MoreIdle

(***************************************************************************)
(* generic_assemble_2d_parallel / generic_assemble_3d_parallel.            *)
(***************************************************************************)
DrvInit ==
    /\ num_threads \in 1..MaxThreads
    /\ threadpool = 0
    /\ pc = "call"
    /\ chunks = <<>>
    /\ fut = <<>>
    /\ acc = EmptyMat
    /\ nsum = 0
    /\ ret = [trips |-> <<>>, mat |-> EmptyMat]

\* get_thread_pool(): the process-wide pool, created on first use
get_thread_pool == IF threadpool = 0 THEN num_threads ELSE threadpool

\* num_threads <= 1: return generic_assemble(asm)
RunDirect ==
    /\ pc = "call"
    /\ num_threads <= 1
    /\ ret' = generic_assemble(-1, -1)
    /\ pc' = "return"
    /\ UNCHANGED <<asmVars, num_threads, threadpool, chunks, fut, acc, nsum>>
    /\ UNCHANGED exceptDrv

\* results = get_thread_pool().map(asm_chunk, chunk_tasks(range(ndofs[0]), 4*num_threads))
\* Executor.map submits one future per chunk at once; sum(results) then
\* consumes the results in submission order.
Dispatch ==
    /\ pc = "call"
    /\ num_threads > 1
    /\ threadpool' = get_thread_pool
    /\ chunks' = chunk_tasks(Range(0, ndofs[1]), 4 * num_threads)
    /\ fut' = [c \in 1..Len(chunks') |->
                  [st |-> "pending", trips |-> <<>>, mat |-> EmptyMat]]
    /\ pc' = "sum"
    /\ UNCHANGED <<asmVars, num_threads, acc, nsum, ret>>
    /\ UNCHANGED exceptDrv

Running == {c \in 1..Len(fut) : fut[c].st = "running"}

\* a free pool worker takes the oldest pending work item
WorkerStart(c) ==
    /\ fut[c].st = "pending"
    /\ \A b \in 1..(c - 1) : fut[b].st # "pending"
    /\ Cardinality(Running) < threadpool
    /\ fut' = [fut EXCEPT ![c].st = "running"]
    /\ UNCHANGED <<asmVars, num_threads, threadpool, pc, chunks, acc, nsum, ret>>
    /\ UNCHANGED exceptDrv

\* asm_chunk(rg): generic_assemble(asm.shared_clone(), rg.start, rg.stop);
\* shared_clone returns the assembler itself
AsmChunk(rg) == generic_assemble(rg[1], rg[Len(rg)] + 1)

WorkerFinish(c) ==
    /\ fut[c].st = "running"
    /\ LET r == AsmChunk(chunks[c]) IN
       fut' = [fut EXCEPT ![c] = [st |-> "done", trips |-> r.trips, mat |-> r.mat]]
    /\ UNCHANGED <<asmVars, num_threads, threadpool, pc, chunks, acc, nsum, ret>>
    /\ UNCHANGED exceptDrv

\* faulty variant: the next matrix is taken without waiting for its future
SumNext_NoWait ==
    /\ pc = "sum"
    /\ nsum < Len(fut)
    /\ acc' = PySumStep(nsum, acc, fut[nsum + 1].mat)
    /\ nsum' = nsum + 1
    /\ UNCHANGED <<asmVars, num_threads, threadpool, pc, chunks, fut, ret>>
    /\ UNCHANGED exceptDrv

\* sum(results): the next result, in submission order, is added as soon as
\* its future is done
SumNext ==
    /\ pc = "sum"
    /\ nsum < Len(fut)
    /\ fut[nsum + 1].st = "done"
    /\ acc' = PySumStep(nsum, acc, fut[nsum + 1].mat)
    /\ nsum' = nsum + 1
    /\ UNCHANGED <<asmVars, num_threads, threadpool, pc, chunks, fut, ret>>
    /\ UNCHANGED exceptDrv

SumReturn ==
    /\ pc = "sum"
    /\ nsum = Len(fut)
    /\ ret' = [trips |-> <<>>, mat |-> acc]
    /\ pc' = "return"
    /\ UNCHANGED <<asmVars, num_threads, threadpool, chunks, fut, acc, nsum>>
    /\ UNCHANGED exceptDrv

DrvOthersIdle == SuppIdle /\ ChunkIdle /\ SeqIdle /\ ImplIdle /\ NewIdle

Init == AsmInitFrom(AsmConfigs) /\ DrvInit /\ DrvOthersIdle

Next ==
    \/ RunDirect
    \/ Dispatch
    \/ \E c \in 1..Len(fut) : WorkerStart(c)
    \/ \E c \in 1..Len(fut) : WorkerFinish(c)
    \/ SumNext
    \/ SumReturn

Spec == Init /\ [][Next]_vars

(***************************************************************************)
(* SpecFail: the parallel driver when the traversal of a chunk may raise   *)
(* (MemoryError while the entry vectors grow, an exception of the          *)
(* assembler).  Executor.map hands out the results in submission order;    *)
(* result() of a failed future re-raises its exception inside sum(), the   *)
(* generator of map is closed, and its finally clause cancels the futures  *)
(* that have not started.  Futures that are running are left running.      *)
(***************************************************************************)
\* asm_chunk(rg) raises
WorkerFail(c) ==
    /\ fut[c].st = "running"
    /\ fut' = [fut EXCEPT ![c].st = "failed"]
    /\ UNCHANGED <<asmVars, num_threads, threadpool, pc, chunks, acc, nsum, ret>>
    /\ UNCHANGED exceptDrv

\* sum(results): the next result, in submission order, is a failed future
SumRaise ==
    /\ pc = "sum"
    /\ nsum < Len(fut)
    /\ fut[nsum + 1].st = "failed"
    /\ pc' = "raised"
    /\ fut' = [c \in 1..Len(fut) |->
                  IF fut[c].st = "pending"
                  THEN [fut[c] EXCEPT !.st = "cancelled"]
                  ELSE fut[c]]
    /\ UNCHANGED <<asmVars, num_threads, threadpool, chunks, acc, nsum, ret>>
    /\ UNCHANGED exceptDrv

FailConfigs == {<<t0, t1>> : t0 \in SmallTables, t1 \in Tables3}

InitFail ==
    /\ AsmInitFrom(FailConfigs)
    /\ DrvInit
    /\ num_threads > 1
    /\ DrvOthersIdle

NextFail ==
    \/ Dispatch
    \/ \E c \in 1..Len(fut) : WorkerStart(c)
    \/ \E c \in 1..Len(fut) : WorkerFinish(c)
    \/ \E c \in 1..Len(fut) : WorkerFail(c)
    \/ SumNext
    \/ SumRaise
    \/ SumReturn

SpecFail == InitFail /\ [][NextFail]_vars

(***************************************************************************)
(* SpecSupp: find_joint_support_functions called on one support table.     *)
(***************************************************************************)
TabIntervals == {iv \in (0..MaxTabElem) \X (0..MaxTabElem) : iv[1] < iv[2]}

TabTables ==
    UNION {{tab \in [1..n -> TabIntervals] : LeftSorted(tab)} : n \in 1..MaxTabLen}

SuppInit ==
    /\ fs_tab \in TabTables
    /\ fs_i = -1
    /\ fs_out = <<0, 0>>

FindJointSupport(i) ==
    /\ fs_i' = i
    /\ fs_out' = find_joint_support_functions(fs_tab, i)
    /\ UNCHANGED fs_tab
    /\ UNCHANGED exceptSupp

SuppOthersIdle == AsmIdle /\ DrvIdle /\ ChunkIdle /\ SeqIdle /\ ImplIdle /\ NewIdle

InitSupp == SuppInit /\ SuppOthersIdle

NextSupp == \E i \in 0..(Len(fs_tab) - 1) : FindJointSupport(i)

SpecSupp == InitSupp /\ [][NextSupp]_vars

(***************************************************************************)
(* SpecChunk: chunk_tasks called on range(n).                              *)
(***************************************************************************)
ChunkInit ==
    /\ ct_tasks \in {Range(0, n) : n \in 0..MaxTasks}
    /\ ct_num \in 1..MaxNumChunks
    /\ ct_out = <<>>
    /\ ct_done = FALSE

\* list(chunk_tasks(tasks, num_chunks))
ChunkTasks ==
    /\ ~ct_done
    /\ ct_out' = chunk_tasks(ct_tasks, ct_num)
    /\ ct_done' = TRUE
    /\ UNCHANGED <<ct_tasks, ct_num>>
    /\ UNCHANGED exceptChunk

ChunkOthersIdle == AsmIdle /\ DrvIdle /\ SuppIdle /\ SeqIdle /\ ImplIdle /\ NewIdle

InitChunk == ChunkInit /\ ChunkOthersIdle

NextChunk == ChunkTasks

SpecChunk == InitChunk /\ [][NextChunk]_vars

(***************************************************************************)
(* SpecSeq: the linearization round trips of BaseAssembler2D /             *)
(* BaseAssembler3D and the free function from_seq3.                        *)
(***************************************************************************)
SeqDims ==
    {<<a, b>> : a \in 1..MaxSeqDofs, b \in 1..MaxSeqDofs}
    \cup {<<a, b, c>> : a \in 1..MaxSeqDofs, b \in 1..MaxSeqDofs, c \in 1..MaxSeqDofs}

GridOf(nd) ==
    IF Len(nd) = 2
    THEN {<<a, b>> : a \in 0..(nd[1] - 1), b \in 0..(nd[2] - 1)}
    ELSE {<<a, b, c>> : a \in 0..(nd[1] - 1), b \in 0..(nd[2] - 1),
                        c \in 0..(nd[3] - 1)}

SeqInit ==
    /\ sq_nd \in SeqDims
    /\ sq_op = "none"
    /\ sq_in = <<>>
    /\ sq_mid = <<>>
    /\ sq_out = <<>>
    /\ sq_free = <<>>

\* from_seq(to_seq(I))
Linearize(I) ==
    /\ sq_op' = "to_from"
    /\ sq_in' = I
    /\ sq_mid' = <<to_seq(sq_nd, I)>>
    /\ sq_out' = from_seq(sq_nd, to_seq(sq_nd, I))
    /\ sq_free' = IF Len(sq_nd) = 3 THEN from_seq3(to_seq(sq_nd, I), sq_nd) ELSE <<>>
    /\ UNCHANGED sq_nd
    /\ UNCHANGED exceptSeq

\* to_seq(from_seq(k))
Delinearize(k) ==
    /\ sq_op' = "from_to"
    /\ sq_in' = <<k>>
    /\ sq_mid' = from_seq(sq_nd, k)
    /\ sq_out' = <<to_seq(sq_nd, from_seq(sq_nd, k))>>
    /\ sq_free' = IF Len(sq_nd) = 3 THEN from_seq3(k, sq_nd) ELSE <<>>
    /\ UNCHANGED sq_nd
    /\ UNCHANGED exceptSeq

SeqOthersIdle == AsmIdle /\ DrvIdle /\ SuppIdle /\ ChunkIdle /\ ImplIdle /\ NewIdle

InitSeq == SeqInit /\ SeqOthersIdle

NextSeq ==
    \/ \E I \in GridOf(sq_nd) : Linearize(I)
    \/ \E k \in 0..(ProdSeq(sq_nd) - 1) : Delinearize(k)

SpecSeq == InitSeq /\ [][NextSeq]_vars

(***************************************************************************)
(* SpecImpl: assemble_impl(i, j) of a constructed assembler, for any two   *)
(* multi-indices of its dof grid.                                          *)
(***************************************************************************)
ImplConfigs ==
    {<<t0, t1>> : t0 \in SmallTables, t1 \in SmallTables}
    \cup {<<t0, t1, t2>> : t0 \in Tables3, t1 \in Tables3, t2 \in Tables3}

ImplInit ==
    /\ ai_i = <<>>
    /\ ai_j = <<>>
    /\ ai_run = [val |-> 0, calls |-> <<>>]

\* assemble_impl writes no field of the assembler, so its calls are independent
\* of each other: a behaviour makes one call
AssembleImpl(i, j) ==
    /\ ai_i = <<>>
    /\ ai_i' = i
    /\ ai_j' = j
    /\ ai_run' = assemble_impl_run(i, j)
    /\ UNCHANGED asmVars
    /\ UNCHANGED exceptImpl

ImplOthersIdle == DrvIdle /\ SuppIdle /\ ChunkIdle /\ SeqIdle /\ NewIdle

InitImpl == AsmInitFrom(ImplConfigs) /\ ImplInit /\ ImplOthersIdle

NextImpl == \E i \in GridOf(ndofs) : \E j \in GridOf(ndofs) : AssembleImpl(i, j)

SpecImpl == InitImpl /\ [][NextImpl]_vars

(***************************************************************************)
(* SpecAcc: a MatrixEntryAccumulator(num_indices, N) and the calls of its  *)
(* process method.  boundscheck and wraparound are off: a write at a       *)
(* position outside 0..N-1 goes to memory outside the buffer, after which  *)
(* the process either goes on or dies.                                     *)
(***************************************************************************)
\* what np.empty may leave in the buffer
Garbage == {0, 3}

IndexValues == {0, Sentinel}

IndexRows(w) == [1..w -> IndexValues]

StreamElems(w) == [ix : IndexRows(w), val : {1, 2}]

Batches(w) == UNION {[1..m -> StreamElems(w)] : m \in 0..MaxBatch}

\* index_changed: the comparison of the first num_indices components
index_changed(old, row, w) == \E k \in 1..w : row[k] # old[k]

\* index_changed: the update of old_indices after a change
AdoptIndices(old, row, w) ==
    [k \in 1..NumOldIndices |-> IF k <= w THEN row[k] ELSE old[k]]

InBuffer(x) == 0 <= x /\ x < mea_cap

\* one iteration of the loop of process
ProcessStep(s, e) ==
    IF index_changed(s.old, e.ix, mea_num_indices)
    THEN LET nidx == s.idx + 1 IN
         [idx |-> nidx,
          res |-> IF InBuffer(nidx)
                  THEN [s.res EXCEPT ![nidx + 1] = e.val] ELSE s.res,
          old |-> AdoptIndices(s.old, e.ix, mea_num_indices),
          oob |-> s.oob \/ ~InBuffer(nidx)]
    ELSE [idx |-> s.idx,
          res |-> IF InBuffer(s.idx)
                  THEN [s.res EXCEPT ![s.idx + 1] = @ + e.val] ELSE s.res,
          old |-> s.old,
          oob |-> s.oob \/ ~InBuffer(s.idx)]

RECURSIVE ProcessLoop(_, _)
ProcessLoop(s, batch) ==
    IF batch = <<>> THEN s
    ELSE ProcessLoop(ProcessStep(s, Head(batch)), Tail(batch))

\* the property result: self._result[:self.idx+1]
result == SubSeq(mea_result, 1, Min2(Max2(mea_idx + 1, 0), mea_cap))

AccInit ==
    /\ mea_idx = -1
    /\ mea_num_indices \in 0..MaxWidth
    /\ mea_cap \in 0..MaxCap
    /\ mea_result \in [1..mea_cap -> Garbage]
    /\ mea_old_indices = [k \in 1..NumOldIndices |-> Sentinel]
    /\ mea_stream = <<>>
    /\ mea_oob = FALSE
    /\ mea_st = "ok"
    /\ mea_calls = <<>>

\* faulty variant: every call starts again from the initial current tuple
Process_ForgetsTuple(batch) ==
    /\ mea_st = "ok"
    /\ Len(mea_stream) + Len(batch) <= MaxStreamLen
    /\ LET s == ProcessLoop([idx |-> mea_idx, res |-> mea_result,
                             old |-> [k \in 1..NumOldIndices |-> Sentinel],
                             oob |-> FALSE], batch)
       IN  /\ mea_idx' = s.idx
           /\ mea_result' = s.res
           /\ mea_old_indices' = s.old
           /\ mea_oob' = (mea_oob \/ s.oob)
           /\ mea_st' \in (IF s.oob THEN {"ok", "crashed"} ELSE {"ok"})
    /\ mea_stream' = mea_stream \o batch
    /\ mea_calls' = (IF batch = <<>> THEN mea_calls
                     ELSE Append(mea_calls, Len(batch)))
    /\ UNCHANGED <<mea_num_indices, mea_cap>>
    /\ UNCHANGED exceptAcc

\* process(indices, values): the loop starts from the fields idx,
\* old_indices and _result as the previous call left them
Process(batch) ==
    /\ mea_st = "ok"
    /\ Len(mea_stream) + Len(batch) <= MaxStreamLen
    /\ LET s == ProcessLoop([idx |-> mea_idx, res |-> mea_result,
                             old |-> mea_old_indices, oob |-> FALSE], batch)
       IN  /\ mea_idx' = s.idx
           /\ mea_result' = s.res
           /\ mea_old_indices' = s.old
           /\ mea_oob' = (mea_oob \/ s.oob)
           /\ mea_st' \in (IF s.oob THEN {"ok", "crashed"} ELSE {"ok"})
    /\ mea_stream' = mea_stream \o batch
    /\ mea_calls' = (IF batch = <<>> THEN mea_calls
                     ELSE Append(mea_calls, Len(batch)))
    /\ UNCHANGED <<mea_num_indices, mea_cap>>
    /\ UNCHANGED exceptAcc

AccOthersIdle ==
    AsmIdle /\ DrvIdle /\ SuppIdle /\ ChunkIdle /\ SeqIdle /\ ImplIdle
    /\ TileIdle /\ MultiIdle /\ MoreIdle

InitAcc == AccInit /\ AccOthersIdle

NextAcc == \E batch \in Batches(mea_num_indices) : Process(batch)

SpecAcc == InitAcc /\ [][NextAcc]_vars

(***************************************************************************)
(* SpecTile: prepare_tile_indices3(ij_arr, meshsupp, numdofs).             *)
(***************************************************************************)
TileTables == UNION {SupportTables(n) : n \in 1..MaxTileDofs}

TileConfigs ==
    {c \in {<<t0, t1, t2>> : t0 \in TileTables, t1 \in TileTables,
                              t2 \in TileTables} :
        Len(c[1]) * Len(c[2]) * Len(c[3]) <= MaxTileDofs}

\* the rows pushed for one pair: t0 outermost, t2 innermost
TileRows(p, ms, nd) ==
    LET I == from_seq3(p[1], nd)
        J == from_seq3(p[2], nd)
        intvs == [r \in 1..3 |->
                    intersect_intervals(
                        make_intv(ms[r][I[r] + 1][1], ms[r][I[r] + 1][2]),
                        make_intv(ms[r][J[r] + 1][1], ms[r][J[r] + 1][2]))]
        T0 == Range(intvs[1][1], intvs[1][2])
        T1 == Range(intvs[2][1], intvs[2][2])
        T2 == Range(intvs[3][1], intvs[3][2])
    IN  Flatten([a \in 1..Len(T0) |->
           Flatten([b \in 1..Len(T1) |->
              [c \in 1..Len(T2) |-> I \o J \o <<T0[a], T1[b], T2[c]>>]])])

\* the cast <unsigned[:result.size()]> raises ValueError for size 0
prepare_tile_indices3(ij, ms, nd) ==
    LET rows == Flatten([k \in 1..Len(ij) |-> TileRows(ij[k], ms, nd)])
    IN  IF rows = <<>>
        THEN [st |-> "raised", rows |-> <<>>]
        ELSE [st |-> "returned", rows |-> rows]

TileInit ==
    /\ tile_ms \in TileConfigs
    /\ tile_nd = [k \in 1..3 |-> Len(tile_ms[k])]
    /\ tile_ij = <<>>
    /\ tile_out = <<>>
    /\ tile_st = "none"

TilePairLists ==
    LET N == ProdSeq(tile_nd) IN
    UNION {[1..m -> (0..(N - 1)) \X (0..(N - 1))] : m \in 0..MaxTilePairs}

PrepareTileIndices(ij) ==
    /\ LET r == prepare_tile_indices3(ij, tile_ms, tile_nd) IN
          /\ tile_out' = r.rows
          /\ tile_st' = r.st
    /\ tile_ij' = ij
    /\ UNCHANGED <<tile_ms, tile_nd>>
    /\ UNCHANGED exceptTile

TileOthersIdle ==
    AsmIdle /\ DrvIdle /\ SuppIdle /\ ChunkIdle /\ SeqIdle /\ ImplIdle
    /\ AccIdle /\ MultiIdle /\ MoreIdle

InitTile == TileInit /\ TileOthersIdle

NextTile == \E ij \in TilePairLists : PrepareTileIndices(ij)

SpecTile == InitTile /\ [][NextTile]_vars

(***************************************************************************)
(* SpecMulti: multi_assemble(indices) of one assembler, called any number  *)
(* of times, with the maximal thread count changed between calls.          *)
(***************************************************************************)
MultiTables == {t \in Tables3 : Len(t) <= MaxMultiDofs}

MultiConfigs ==
    {c \in {<<t0, t1>> : t0 \in MultiTables, t1 \in MultiTables}
           \cup {<<t0, t1, t2>> : t0 \in MultiTables, t1 \in MultiTables,
                                  t2 \in MultiTables} :
        ProdSeq([k \in 1..Len(c) |-> Len(c[k])]) <= MaxMultiDofs}

MultiPairLists(n) ==
    UNION {[1..m -> (0..(n - 1)) \X (0..(n - 1))] : m \in 0..MaxPairs}

\* the argument indices is the same in every call of one behaviour
MultiInit ==
    /\ ma_num_threads \in 1..MaxPoolThreads
    /\ ma_threadpool = 0
    /\ ma_asm_pool = 0
    /\ ma_indices \in MultiPairLists(NDofsTotal)
    /\ ma_result = <<>>
    /\ ma_st = "none"

\* pyiga.set_max_threads
SetMaxThreads(t) ==
    /\ ma_num_threads' = t
    /\ UNCHANGED <<asmVars, ma_threadpool, ma_asm_pool, ma_indices, ma_result,
                   ma_st>>
    /\ UNCHANGED exceptMulti

\* multi_assemble_chunk
multi_assemble_chunk(idx_arr) ==
    [k \in 1..Len(idx_arr) |-> assemble(idx_arr[k][1], idx_arr[k][2])]

\* the positions of result written by the calls thread_pool.map makes: map
\* zips the handle list with the two chunk generators and stops with the
\* shortest of them
WrittenByMap(len, handles, nthreads) ==
    LET parts == chunk_tasks(Range(1, len + 1), nthreads)
        made  == Min2(handles, Len(parts))
    IN  UNION {{parts[c][k] : k \in 1..Len(parts[c])} : c \in 1..made}

\* np.array(list(indices)) of an empty list is one-dimensional and the
\* conversion to size_t[:,::1] raises ValueError
MultiAssembleRaise ==
    /\ ma_indices = <<>>
    /\ ma_result' = <<>>
    /\ ma_st' = "raised"
    /\ UNCHANGED <<asmVars, ma_num_threads, ma_threadpool, ma_asm_pool,
                   ma_indices>>
    /\ UNCHANGED exceptMulti

\* faulty variant: the call leaves a trace in a field of the assembler
MultiAssembleDirect_WritesField ==
    /\ ma_indices # <<>>
    /\ ma_num_threads <= 1
    /\ ma_result' = multi_assemble_chunk(ma_indices)
    /\ ma_st' = "returned"
    /\ nqp' = 0
    /\ UNCHANGED <<ndofs, meshsupp, kernel, ma_num_threads, ma_threadpool,
                   ma_asm_pool, ma_indices>>
    /\ UNCHANGED exceptMulti

\* num_threads <= 1: self.multi_assemble_chunk(idx_arr, result)
MultiAssembleDirect ==
    /\ ma_indices # <<>>
    /\ ma_num_threads <= 1
    /\ ma_result' = multi_assemble_chunk(ma_indices)
    /\ ma_st' = "returned"
    /\ UNCHANGED <<asmVars, ma_num_threads, ma_threadpool, ma_asm_pool,
                   ma_indices>>
    /\ UNCHANGED exceptMulti

\* empty: the contents np.empty leaves in the positions of result that no
\* call writes
MultiAssemblePooled ==
    /\ ma_indices # <<>>
    /\ ma_num_threads > 1
    /\ ma_threadpool' = (IF ma_threadpool = 0 THEN ma_num_threads
                         ELSE ma_threadpool)
    /\ ma_asm_pool' = (IF ma_asm_pool = 0 THEN ma_threadpool' ELSE ma_asm_pool)
    /\ LET written == WrittenByMap(Len(ma_indices), ma_asm_pool',
                                   ma_num_threads)
           vals == multi_assemble_chunk(ma_indices)
       IN  \E empty \in [(1..Len(ma_indices)) \ written -> Garbage] :
              ma_result' = [k \in 1..Len(ma_indices) |->
                               IF k \in written THEN vals[k] ELSE empty[k]]
    /\ ma_st' = "returned"
    /\ UNCHANGED <<asmVars, ma_num_threads, ma_indices>>
    /\ UNCHANGED exceptMulti

MultiOthersIdle ==
    DrvIdle /\ SuppIdle /\ ChunkIdle /\ SeqIdle /\ ImplIdle /\ AccIdle
    /\ TileIdle /\ MoreIdle

InitMulti == AsmInitFrom(MultiConfigs) /\ MultiInit /\ MultiOthersIdle

NextMulti ==
    \/ \E t \in 1..MaxPoolThreads : SetMaxThreads(t)
    \/ MultiAssembleRaise
    \/ MultiAssembleDirect
    \/ MultiAssemblePooled

SpecMulti == InitMulti /\ [][NextMulti]_vars

(***************************************************************************)
(* SpecPool: threads that call get_thread_pool() while _threadpool may     *)
(* still be None.  The function holds the GIL, but the expression          *)
(* ThreadPoolExecutor(pyiga.get_max_threads()) runs Python code, during    *)
(* which the interpreter may switch to another thread; the test            *)
(* "_threadpool is None" and the assignment are therefore two steps.       *)
(***************************************************************************)
Callers == 1..MaxCallers

PoolInit ==
    /\ gp_pc = [c \in Callers |-> "idle"]
    /\ gp_got = [c \in Callers |-> 0]
    /\ gp_threadpool = 0
    /\ gp_pools = <<>>
    /\ gp_max \in 2..MaxPoolThreads

\* if _threadpool is None: ... / return _threadpool
GtpCheck(c) ==
    /\ gp_pc[c] = "idle"
    /\ IF gp_threadpool = 0
       THEN /\ gp_pc' = [gp_pc EXCEPT ![c] = "constructing"]
            /\ UNCHANGED gp_got
       ELSE /\ gp_pc' = [gp_pc EXCEPT ![c] = "done"]
            /\ gp_got' = [gp_got EXCEPT ![c] = gp_threadpool]
    /\ UNCHANGED <<gp_threadpool, gp_pools, gp_max>>
    /\ UNCHANGED exceptPool

\* _threadpool = ThreadPoolExecutor(...); return _threadpool
GtpCreate(c) ==
    /\ gp_pc[c] = "constructing"
    /\ gp_pools' = Append(gp_pools, gp_max)
    /\ gp_threadpool' = Len(gp_pools')
    /\ gp_got' = [gp_got EXCEPT ![c] = gp_threadpool']
    /\ gp_pc' = [gp_pc EXCEPT ![c] = "done"]
    /\ UNCHANGED gp_max
    /\ UNCHANGED exceptPool

PoolOthersIdle ==
    AsmIdle /\ DrvIdle /\ SuppIdle /\ ChunkIdle /\ SeqIdle /\ ImplIdle
    /\ AccIdle /\ TileIdle /\ MultiIdle /\ CtorIdle /\ KernIdle /\ TravIdle

InitPool == PoolInit /\ PoolOthersIdle

NextPool ==
    \/ \E c \in Callers : GtpCheck(c)
    \/ \E c \in Callers : GtpCreate(c)

SpecPool == InitPool /\ [][NextPool]_vars

(***************************************************************************)
(* Doubles, as far as the constructors need them: a finite value (an       *)
(* integer here), an infinity with its sign, or NaN.  IEEE arithmetic:     *)
(* NaN propagates, inf - inf = 0 * inf = 0 / 0 = inf / inf = NaN, and with *)
(* cdivision(True) x / 0 is a signed infinity, never an exception.         *)
(***************************************************************************)
DFin(n) == [k |-> "fin", v |-> n]
DNaN == [k |-> "nan", v |-> 0]
DInf(sgn) == [k |-> "inf", v |-> sgn]
DSign(x) == IF x.v < 0 THEN -1 ELSE 1

DNeg(x) == [x EXCEPT !.v = -x.v]

DAbs(x) == [x EXCEPT !.v = IF x.v < 0 THEN -x.v ELSE x.v]

DAdd(x, y) ==
    IF x.k = "nan" \/ y.k = "nan" THEN DNaN
    ELSE IF x.k = "inf" /\ y.k = "inf" THEN (IF x.v = y.v THEN x ELSE DNaN)
    ELSE IF x.k = "inf" THEN x
    ELSE IF y.k = "inf" THEN y
    ELSE DFin(x.v + y.v)

DSub(x, y) == DAdd(x, DNeg(y))

DMul(x, y) ==
    IF x.k = "nan" \/ y.k = "nan" THEN DNaN
    ELSE IF x.k = "inf" \/ y.k = "inf"
         THEN (IF x.v = 0 \/ y.v = 0 THEN DNaN ELSE DInf(DSign(x) * DSign(y)))
    ELSE DFin(x.v * y.v)

\* the quotient of two finite values is exact for the divisors used here
\* (determinants -1 and 1); the sign of a zero divisor is taken as positive
DDiv(x, y) ==
    IF x.k = "nan" \/ y.k = "nan" THEN DNaN
    ELSE IF y.k = "inf" THEN (IF x.k = "inf" THEN DNaN ELSE DFin(0))
    ELSE IF x.k = "inf" THEN DInf(DSign(x) * DSign(y))
    ELSE IF y.v = 0 THEN (IF x.v = 0 THEN DNaN ELSE DInf(DSign(x)))
    ELSE DFin((x.v * DSign(y)) \div (y.v * DSign(y)))

\* x += s[1]; x += s[2]; ... starting from 0.0
RECURSIVE DSum(_)
DSum(s) ==
    IF s = <<>> THEN DFin(0)
    ELSE DAdd(DSum(SubSeq(s, 1, Len(s) - 1)), s[Len(s)])

\* the expression shared by determinants_3x3 and det_and_inv_3x3, and the
\* 2x2 expression of determinants and det_and_inv_2x2
determinants(X) ==
    IF Len(X) = 2
    THEN DSub(DMul(X[1][1], X[2][2]), DMul(X[1][2], X[2][1]))
    ELSE DAdd(DSub(DMul(X[1][1], DSub(DMul(X[2][2], X[3][3]), DMul(X[3][2], X[2][3]))),
                   DMul(X[1][2], DSub(DMul(X[2][1], X[3][3]), DMul(X[2][3], X[3][1])))),
              DMul(X[1][3], DSub(DMul(X[2][1], X[3][2]), DMul(X[2][2], X[3][1]))))

det_and_inv_2x2(X) ==
    LET det == determinants(X) IN
    [det |-> det,
     inv |-> << <<DDiv(X[2][2], det), DDiv(DNeg(X[1][2]), det)>>,
                <<DDiv(DNeg(X[2][1]), det), DDiv(X[1][1], det)>> >>]

\* the cofactor x[a][b] * x[c][d] - x[e][f] * x[g][h]
Minor(X, a, b, c, d, e, f, g, h) ==
    DSub(DMul(X[a][b], X[c][d]), DMul(X[e][f], X[g][h]))

det_and_inv_3x3(X) ==
    LET det == determinants(X)
        invdet == DDiv(DFin(1), det)
    IN  [det |-> det,
         inv |-> << <<DMul(Minor(X, 2,2,3,3, 3,2,2,3), invdet),
                      DMul(Minor(X, 1,3,3,2, 1,2,3,3), invdet),
                      DMul(Minor(X, 1,2,2,3, 1,3,2,2), invdet)>>,
                    <<DMul(Minor(X, 2,3,3,1, 2,1,3,3), invdet),
                      DMul(Minor(X, 1,1,3,3, 1,3,3,1), invdet),
                      DMul(Minor(X, 2,1,1,3, 1,1,2,3), invdet)>>,
                    <<DMul(Minor(X, 2,1,3,2, 3,1,2,2), invdet),
                      DMul(Minor(X, 3,1,1,2, 1,1,3,2), invdet),
                      DMul(Minor(X, 1,1,2,2, 2,1,1,2), invdet)>> >>]

det_and_inv(X) == IF Len(X) = 2 THEN det_and_inv_2x2(X) ELSE det_and_inv_3x3(X)

\* matmatT_2x2 / matmatT_3x3: B * B^T
matmatT(B) ==
    [j \in 1..Len(B) |-> [l \in 1..Len(B) |->
        DSum([k \in 1..Len(B) |-> DMul(B[j][k], B[l][k])])]]

(***************************************************************************)
(* SpecCtor: one call of the constructor of one of the four assembler      *)
(* classes, statement by statement.                                        *)
(*                                                                         *)
(* BaseAssembler2D.base_init is declared "cdef void": an exception raised  *)
(* inside it propagates to __init__ when the module is built by Cython 3,  *)
(* and is printed and discarded (the function returns where it stands)     *)
(* when it is built by Cython 0.x.  BaseAssembler3D.base_init is declared  *)
(* "cdef" and returns an object, so its exceptions propagate in both.      *)
(***************************************************************************)
CtorClasses ==
    {"MassAssembler2D", "StiffnessAssembler2D", "MassAssembler3D", "StiffnessAssembler3D"}

ClsDim(cls) == IF cls \in {"MassAssembler2D", "StiffnessAssembler2D"} THEN 2 ELSE 3

ClsIsStiffness(cls) == cls \in {"StiffnessAssembler2D", "StiffnessAssembler3D"}

\* geo.grid_jacobian(gaussgrid)[node]: orientation preserving, orientation
\* reversing, singular, and with an undefined entry
JacSamples(d) ==
    LET id == [r \in 1..d |-> [c \in 1..d |-> DFin(IF r = c THEN 1 ELSE 0)]]
        flip == [id EXCEPT ![1] = id[2], ![2] = id[1]]
        sing == [id EXCEPT ![2] = id[1]]
        undef == [id EXCEPT ![1][1] = DNaN]
    IN  {id, flip, sing, undef}

\* gaussweights[0][n0] * gaussweights[1][n1] (* gaussweights[2][n2]) at a node
QuadWeight == DFin(2)

CtorInit ==
    /\ cons_cls \in CtorClasses
    /\ cons_nkvs \in 1..3
    /\ cons_geodim \in 2..3
    /\ cons_jac \in [1..MaxNodes -> JacSamples(cons_geodim)]
    /\ cons_pc = "init"
    /\ cons_base = "no"
    /\ cons_det = <<>>
    /\ cons_weights = <<>>

\* assert geo.dim == d, "Geometry has wrong dimension"
CtorCheckDim ==
    /\ cons_pc = "init"
    /\ cons_pc' = IF cons_geodim = ClsDim(cons_cls) THEN "base_init" ELSE "raised"
    /\ UNCHANGED <<cons_cls, cons_nkvs, cons_geodim, cons_jac, cons_base,
                   cons_det, cons_weights>>
    /\ UNCHANGED exceptCtor

\* self.base_init(kvs): assert len(kvs) == d, then nqp, ndofs, meshsupp, _asm_pool
CtorBaseInit ==
    /\ cons_pc = "base_init"
    /\ IF cons_nkvs = ClsDim(cons_cls)
       THEN cons_base' = "done" /\ cons_pc' = "quadrature"
       ELSE /\ cons_base' = "aborted"
            /\ IF ClsDim(cons_cls) = 3
               THEN cons_pc' = "raised"
               ELSE cons_pc' \in {"raised", "quadrature"}
    /\ UNCHANGED <<cons_cls, cons_nkvs, cons_geodim, cons_jac, cons_det, cons_weights>>
    /\ UNCHANGED exceptCtor

\* gauss = [make_iterated_quadrature(np.unique(kv.kv), self.nqp) for kv in kvs]
\* self.C = [bspline.collocation...(kvs[k], gaussgrid[k]) ... for k in range(d)]
\* After an aborted base_init self.nqp is still 0; what the quadrature
\* generator does with that is its own affair.  kvs[k] raises IndexError
\* when there are fewer than d knot vectors.
CtorBasisTensors ==
    /\ cons_pc = "quadrature"
    /\ IF cons_nkvs < ClsDim(cons_cls) THEN cons_pc' = "raised"
       ELSE IF cons_base = "aborted" THEN cons_pc' \in {"raised", "geometry"}
       ELSE cons_pc' = "geometry"
    /\ UNCHANGED <<cons_cls, cons_nkvs, cons_geodim, cons_jac, cons_base,
                   cons_det, cons_weights>>
    /\ UNCHANGED exceptCtor

\* mass:      geo_det = np.abs(determinants(geo_jac))
\*            self.geo_weights = gaussweights... * geo_det
MassWeights(X) ==
    LET geo_det == DAbs(determinants(X)) IN
    [det |-> geo_det, weights |-> DMul(QuadWeight, geo_det)]

\* stiffness: geo_det, geo_jacinv = det_and_inv(geo_jac)
\*            weights = gaussweights... * np.abs(geo_det)
\*            self.B = matmatT(geo_jacinv) * weights[..., None, None]
StiffnessWeights(X) ==
    LET di == det_and_inv(X)
        weights == DMul(QuadWeight, DAbs(di.det))
        M == matmatT(di.inv)
    IN  [det |-> di.det,
         weights |-> [j \in 1..Len(M) |-> [l \in 1..Len(M) |-> DMul(M[j][l], weights)]]]

\* geo_jac = geo.grid_jacobian(gaussgrid) and the weight tensor.  With a
\* wrong number of grids the geometry may refuse the call.
CtorGeometry ==
    /\ cons_pc = "geometry"
    /\ \/ /\ cons_nkvs # ClsDim(cons_cls)
          /\ cons_pc' = "raised"
          /\ UNCHANGED <<cons_det, cons_weights>>
       \/ /\ LET w == [n \in 1..Len(cons_jac) |->
                         IF ClsIsStiffness(cons_cls)
                         THEN StiffnessWeights(cons_jac[n])
                         ELSE MassWeights(cons_jac[n])]
             IN  /\ cons_det' = [n \in 1..Len(cons_jac) |-> w[n].det]
                 /\ cons_weights' = [n \in 1..Len(cons_jac) |-> w[n].weights]
          /\ cons_pc' = "constructed"
    /\ UNCHANGED <<cons_cls, cons_nkvs, cons_geodim, cons_jac, cons_base>>
    /\ UNCHANGED exceptCtor

CtorOthersIdle ==
    AsmIdle /\ DrvIdle /\ SuppIdle /\ ChunkIdle /\ SeqIdle /\ ImplIdle
    /\ AccIdle /\ TileIdle /\ MultiIdle /\ PoolIdle /\ KernIdle /\ TravIdle

InitCtor == CtorInit /\ CtorOthersIdle

NextCtor ==
    \/ CtorCheckDim
    \/ CtorBaseInit
    \/ CtorBasisTensors
    \/ CtorGeometry

SpecCtor == InitCtor /\ [][NextCtor]_vars

(***************************************************************************)
(* SpecKernel: the four entry kernels, evaluated as the code evaluates     *)
(* them, once for (u, v) and once for (v, u).  Each kernel is computed in  *)
(* doubles (every product and every sum is rounded to Mantissa significant *)
(* bits, to nearest, ties to even) and in exact arithmetic.                *)
(***************************************************************************)
RndAbs(a) ==
    IF a < 2 ^ Mantissa THEN a
    ELSE LET e == CHOOSE e \in 1..20 :
                     2 ^ (Mantissa - 1 + e) <= a /\ a < 2 ^ (Mantissa + e)
             q == a \div (2 ^ e)
             r == a % (2 ^ e)
             half == 2 ^ (e - 1)
             up == r > half \/ (r = half /\ q % 2 = 1)
         IN  (IF up THEN q + 1 ELSE q) * (2 ^ e)

Rnd(x) == IF x < 0 THEN -RndAbs(-x) ELSE RndAbs(x)

AMul(ar, x, y) == IF ar = "double" THEN Rnd(x * y) ELSE x * y

AAdd(ar, x, y) == IF ar = "double" THEN Rnd(x + y) ELSE x + y

\* result = 0.0; result += terms[1]; result += terms[2]; ...
RECURSIVE AccSum(_, _)
AccSum(ar, terms) ==
    IF terms = <<>> THEN 0
    ELSE AAdd(ar, AccSum(ar, SubSeq(terms, 1, Len(terms) - 1)), terms[Len(terms)])

\* a * b * c * ... evaluated from left to right
RECURSIVE AProd(_, _)
AProd(ar, fs) ==
    IF Len(fs) = 1 THEN fs[1]
    ELSE AMul(ar, AProd(ar, SubSeq(fs, 1, Len(fs) - 1)), fs[Len(fs)])

\* faulty variant: the last factor of v is taken from u
combine_mass_2d_WrongFactor(ar, J, Vu0, Vu1, Vv0, Vv1) ==
    LET n0 == Len(J)
        n1 == Len(J[1])
    IN  AccSum(ar, [n \in 1..(n0 * n1) |->
            LET i0 == (n - 1) \div n1 + 1
                i1 == ((n - 1) % n1) + 1
            IN  AProd(ar, <<Vu0[i0], Vu1[i1], Vv0[i0], Vu1[i1], J[i0][i1]>>)])

\* result += Vu0[i0]*Vu1[i1] * Vv0[i0]*Vv1[i1] * J[i0,i1]
combine_mass_2d(ar, J, Vu0, Vu1, Vv0, Vv1) ==
    LET n0 == Len(J)
        n1 == Len(J[1])
    IN  AccSum(ar, [n \in 1..(n0 * n1) |->
            LET i0 == (n - 1) \div n1 + 1
                i1 == ((n - 1) % n1) + 1
            IN  AProd(ar, <<Vu0[i0], Vu1[i1], Vv0[i0], Vv1[i1], J[i0][i1]>>)])

\* result += Vu0[i0]*Vu1[i1]*Vu2[i2] * Vv0[i0]*Vv1[i1]*Vv2[i2] * J[i0,i1,i2]
combine_mass_3d(ar, J, Vu, Vv) ==
    LET n0 == Len(J)
        n1 == Len(J[1])
        n2 == Len(J[1][1])
    IN  AccSum(ar, [n \in 1..(n0 * n1 * n2) |->
            LET i0 == (n - 1) \div (n1 * n2) + 1
                i1 == (((n - 1) \div n2) % n1) + 1
                i2 == ((n - 1) % n2) + 1
            IN  AProd(ar, <<Vu[1][i0], Vu[2][i1], Vu[3][i2],
                            Vv[1][i0], Vv[2][i1], Vv[3][i2], J[i0][i1][i2]>>)])

\* (Bptr[r*d + 0]*g[0] + Bptr[r*d + 1]*g[1] + ...), row r of B applied to g
BRow(ar, Bptr, r, g) ==
    LET d == Len(g)
        RECURSIVE Upto(_)
        Upto(c) ==
            IF c = 1 THEN AMul(ar, Bptr[r * d + 1], g[1])
            ELSE AAdd(ar, Upto(c - 1), AMul(ar, Bptr[r * d + c], g[c]))
    IN  Upto(d)

\* VD[2*i] is the value and VD[2*i + 1] the derivative at node i (from 0)
Val(VD, i) == VD[2 * (i - 1) + 1]
Der(VD, i) == VD[2 * (i - 1) + 2]

combine_stiff_2d(ar, B, VDu0, VDu1, VDv0, VDv1) ==
    LET n0 == Len(B)
        n1 == Len(B[1])
        node(n) ==
            LET i0 == (n - 1) \div n1 + 1
                i1 == ((n - 1) % n1) + 1
                Bptr == B[i0][i1]
                gu == <<AMul(ar, Val(VDu0, i0), Der(VDu1, i1)),
                        AMul(ar, Der(VDu0, i0), Val(VDu1, i1))>>
                gv == <<AMul(ar, Val(VDv0, i0), Der(VDv1, i1)),
                        AMul(ar, Der(VDv0, i0), Val(VDv1, i1))>>
            IN  <<AMul(ar, BRow(ar, Bptr, 0, gu), gv[1]),
                  AMul(ar, BRow(ar, Bptr, 1, gu), gv[2])>>
    IN  AccSum(ar, Flatten([n \in 1..(n0 * n1) |-> node(n)]))

combine_stiff_3d(ar, B, VDu, VDv) ==
    LET n0 == Len(B)
        n1 == Len(B[1])
        n2 == Len(B[1][1])
        grad(VD, i0, i1, i2) ==
            <<AMul(ar, AMul(ar, Val(VD[1], i0), Val(VD[2], i1)), Der(VD[3], i2)),
              AMul(ar, AMul(ar, Val(VD[1], i0), Der(VD[2], i1)), Val(VD[3], i2)),
              AMul(ar, AMul(ar, Der(VD[1], i0), Val(VD[2], i1)), Val(VD[3], i2))>>
        node(n) ==
            LET i0 == (n - 1) \div (n1 * n2) + 1
                i1 == (((n - 1) \div n2) % n1) + 1
                i2 == ((n - 1) % n2) + 1
                Bptr == B[i0][i1][i2]
                gu == grad(VDu, i0, i1, i2)
                gv == grad(VDv, i0, i1, i2)
            IN  <<AMul(ar, BRow(ar, Bptr, 0, gu), gv[1]),
                  AMul(ar, BRow(ar, Bptr, 1, gu), gv[2]),
                  AMul(ar, BRow(ar, Bptr, 2, gu), gv[3])>>
    IN  AccSum(ar, Flatten([n \in 1..(n0 * n1 * n2) |-> node(n)]))

\* the kernel of one assembler class on the overlap of u and v
Kernel(kind, ar, W, Vu, Vv) ==
    CASE kind = "mass_2d" -> combine_mass_2d(ar, W, Vu[1], Vu[2], Vv[1], Vv[2])
      [] kind = "stiff_2d" -> combine_stiff_2d(ar, W, Vu[1], Vu[2], Vv[1], Vv[2])
      [] kind = "mass_3d" -> combine_mass_3d(ar, W, Vu, Vv)
      [] kind = "stiff_3d" -> combine_stiff_3d(ar, W, Vu, Vv)

\* samples: basis values, derivatives, weights, metric tensors (row-major;
\* the last one of each dimension is not symmetric)
BasisVals == {1, 3, 5}
StiffVals == {1, 3}
DerivVals == {-1, 1}
WeightVals == {1, 2}
Metrics(d) ==
    IF d = 2 THEN {<<1, 0, 0, 1>>, <<2, 1, 1, 3>>, <<1, 2, 0, 1>>}
    ELSE {<<1, 0, 0, 0, 1, 0, 0, 0, 1>>, <<2, 1, 0, 1, 3, 1, 0, 1, 2>>,
          <<1, 2, 0, 0, 1, 0, 0, 0, 1>>}

\* the interleaved (value, derivative) samples of one function at one node
StiffSamples == {<<v, dv>> : v \in StiffVals, dv \in DerivVals}

KernInit ==
    /\ kn_kind \in {"mass_2d", "stiff_2d", "mass_3d", "stiff_3d"}
    /\ \/ /\ kn_kind = "mass_2d"
          /\ \E n0 \in 1..MaxKernNodes :
                /\ kn_W \in [1..n0 -> [1..1 -> WeightVals]]
                /\ kn_Vu \in [1..n0 -> BasisVals] \X [1..1 -> BasisVals]
                /\ kn_Vv \in [1..n0 -> BasisVals] \X [1..1 -> BasisVals]
       \/ /\ kn_kind = "mass_3d"
          /\ kn_W \in [1..1 -> [1..1 -> [1..1 -> WeightVals]]]
          /\ kn_Vu \in [1..3 -> [1..1 -> BasisVals]]
          /\ kn_Vv \in [1..3 -> [1..1 -> BasisVals]]
       \/ /\ kn_kind = "stiff_2d"
          /\ kn_W \in [1..1 -> [1..1 -> Metrics(2)]]
          /\ kn_Vu \in [1..2 -> StiffSamples]
          /\ kn_Vv \in [1..2 -> StiffSamples]
       \/ /\ kn_kind = "stiff_3d"
          /\ kn_W \in [1..1 -> [1..1 -> [1..1 -> Metrics(3)]]]
          /\ kn_Vu \in [1..3 -> StiffSamples]
          /\ kn_Vv \in [1..3 -> StiffSamples]
    /\ kn_out = <<>>

\* assemble_impl(i, j) and assemble_impl(j, i) on the same overlap: the
\* sample pointers of the two functions change places
KernelEval ==
    /\ kn_out = <<>>
    /\ kn_out' = [uv |-> Kernel(kn_kind, "double", kn_W, kn_Vu, kn_Vv),
                  vu |-> Kernel(kn_kind, "double", kn_W, kn_Vv, kn_Vu),
                  uv_exact |-> Kernel(kn_kind, "exact", kn_W, kn_Vu, kn_Vv),
                  vu_exact |-> Kernel(kn_kind, "exact", kn_W, kn_Vv, kn_Vu)]
    /\ UNCHANGED <<kn_kind, kn_W, kn_Vu, kn_Vv>>
    /\ UNCHANGED exceptKern

KernOthersIdle ==
    AsmIdle /\ DrvIdle /\ SuppIdle /\ ChunkIdle /\ SeqIdle /\ ImplIdle
    /\ AccIdle /\ TileIdle /\ MultiIdle /\ PoolIdle /\ CtorIdle /\ TravIdle

InitKernel == KernInit /\ KernOthersIdle

NextKernel == KernelEval

SpecKernel == InitKernel /\ [][NextKernel]_vars

(***************************************************************************)
(* SpecTrav: the two nested loops of generic_assemble_2d / _3d, one        *)
(* iteration per step.  The chunk range is (-1, -1) for the whole axis or  *)
(* the (start, stop) of a chunk of range(ndofs[0]); chunk_tasks yields no  *)
(* empty chunk and every knot vector has at least one dof, so no range     *)
(* handed to next_lexicographic is empty.  tr_rows and tr_cols record the  *)
(* multi-indices the loops visit.  The loops run inside one thread         *)
(* ("with nogil"), which the scheduler keeps running: SpecTravFair.        *)
(***************************************************************************)
TravConfigs ==
    {<<t0, t1>> : t0 \in SmallTables, t1 \in Tables3}
    \cup {<<t0, t1, t2>> : t0 \in Tables3, t1 \in Tables3, t2 \in Tables3}

TravInit ==
    /\ \/ tr_start = -1 /\ tr_end = -1
       \/ /\ tr_start \in 0..(ndofs[1] - 1)
          /\ tr_end \in (tr_start + 1)..ndofs[1]
    /\ tr_i = DofStart(tr_start)
    /\ tr_j = <<>>
    /\ tr_pc = "row"
    /\ tr_rows = <<>>
    /\ tr_cols = <<>>

\* head of the loop over i: the neighbor ranges, j = neigh_j_start
RowEnter ==
    /\ tr_pc = "row"
    /\ tr_rows' = Append(tr_rows, tr_i)
    /\ tr_cols' = Append(tr_cols, <<>>)
    /\ tr_j' = [k \in 1..Len(ndofs) |-> NeighborBox(tr_i)[k][1]]
    /\ tr_pc' = "col"
    /\ UNCHANGED <<asmVars, tr_start, tr_end, tr_i>>
    /\ UNCHANGED exceptTrav

\* one iteration of the loop over j, ended by next_lexicographic(j, ...)
ColumnStep ==
    /\ tr_pc = "col"
    /\ LET box == NeighborBox(tr_i)
           nxt == next_lexicographic(tr_j,
                      [k \in 1..Len(ndofs) |-> box[k][1]],
                      [k \in 1..Len(ndofs) |-> box[k][2]])
       IN  /\ tr_cols' = [tr_cols EXCEPT ![Len(tr_cols)] = Append(@, tr_j)]
           /\ IF nxt.r = 0
              THEN tr_pc' = "rownext" /\ UNCHANGED tr_j
              ELSE tr_pc' = "col" /\ tr_j' = nxt.cur
    /\ UNCHANGED <<asmVars, tr_start, tr_end, tr_i, tr_rows>>
    /\ UNCHANGED exceptTrav

\* if not next_lexicographic(i, dof_start, dof_end): break
RowNext ==
    /\ tr_pc = "rownext"
    /\ LET nxt == next_lexicographic(tr_i, DofStart(tr_start), DofEnd(tr_end))
       IN  IF nxt.r = 0
           THEN tr_pc' = "done" /\ UNCHANGED tr_i
           ELSE tr_pc' = "row" /\ tr_i' = nxt.cur
    /\ UNCHANGED <<asmVars, tr_start, tr_end, tr_j, tr_rows, tr_cols>>
    /\ UNCHANGED exceptTrav

TravOthersIdle ==
    DrvIdle /\ SuppIdle /\ ChunkIdle /\ SeqIdle /\ ImplIdle
    /\ AccIdle /\ TileIdle /\ MultiIdle /\ PoolIdle /\ CtorIdle /\ KernIdle

InitTrav == AsmInitFrom(TravConfigs) /\ TravInit /\ TravOthersIdle

NextTrav ==
    \/ RowEnter
    \/ ColumnStep
    \/ RowNext

SpecTrav == InitTrav /\ [][NextTrav]_vars

SpecTravFair == InitTrav /\ [][NextTrav]_vars /\ WF_vars(NextTrav)

(***************************************************************************)
(* Vocabulary of the properties.                                           *)
(***************************************************************************)
\* all multi-indices of the assembler's dof grid
MultiIndices == GridOf(ndofs)

\* brute force: two supports share a mesh element
ShareElement(ia, ib) ==
    (ia[1]..(ia[2] - 1)) \cap (ib[1]..(ib[2] - 1)) # {}

\* the supports of dofs i and j overlap on every axis
OverlapOnAllAxes(i, j) ==
    \A k \in 1..Len(ndofs) :
        ShareElement(meshsupp[k][i[k] + 1], meshsupp[k][j[k] + 1])

IsSymmetric(m) ==
    \A p \in DOMAIN m :
        /\ <<p[2], p[1]>> \in DOMAIN m
        /\ m[<<p[2], p[1]>>] = m[p]

Coordinates == (0..(NDofsTotal - 1)) \X (0..(NDofsTotal - 1))

SameValues(a, b) == \A p \in DOMAIN a \cup DOMAIN b : MatGet(a, p) = MatGet(b, p)

NonZeroCoords(m) == {p \in DOMAIN m : m[p] # 0}

\* number of triplets a traversal emitted at coordinate <<r, c>>
CountAt(trips, r, c) ==
    Cardinality({n \in 1..Len(trips) : trips[n][1] = r /\ trips[n][2] = c})

RECURSIVE SumMats(_, _, _)
SumMats(mats, S, n) ==
    IF S = {} THEN <<n, EmptyMat>>
    ELSE LET c    == CHOOSE x \in S : \A y \in S : y <= x
             rest == SumMats(mats, S \ {c}, n)
         IN  <<rest[1] + 1, PySumStep(rest[1], rest[2], mats[c].mat)>>

DoneChunks == {c \in 1..Len(fut) : fut[c].st = "done"}

(***************************************************************************)
(* C1 (as stated): the parallel driver returns a matrix with exactly the   *)
(* stored coordinates and values of one traversal of the whole range.      *)
(***************************************************************************)
C1_SameStoredMatrix ==
    pc = "return" => ret.mat = generic_assemble(-1, -1).mat

(***************************************************************************)
(* C1 (amended): the returned matrix has the value of the single traversal *)
(* at every coordinate; its stored coordinates are those of the single     *)
(* traversal when at most one chunk matrix was summed, and otherwise those *)
(* of the single traversal whose value is not zero (the sparse sum drops   *)
(* zero results, the coo->csr conversion keeps them).  With                *)
(* num_threads <= 1 the pool is never used.                                *)
(***************************************************************************)
C1_ParallelEqualsSequential ==
    /\ pc = "return" =>
          LET seq == generic_assemble(-1, -1).mat IN
          /\ SameValues(ret.mat, seq)
          /\ DOMAIN ret.mat =
                (IF Len(chunks) >= 2 THEN NonZeroCoords(seq) ELSE DOMAIN seq)
    /\ num_threads <= 1 => (threadpool = 0 /\ fut = <<>> /\ nsum = 0)

C1_Witness ==
    /\ pc = "return"
    /\ num_threads > 1
    /\ Len(chunks) >= 2
    /\ \E c \in 1..Len(chunks) : Len(chunks[c]) >= 2
    /\ \E p \in DOMAIN ret.mat : p[1] # p[2] /\ ret.mat[p] # 0

(***************************************************************************)
(* C2: every assembled matrix is exactly symmetric: the matrix of one      *)
(* traversal (whole range or one chunk), the running sum, the returned     *)
(* matrix and the sum over any set of finished chunks.                     *)
(***************************************************************************)
C2_Symmetric ==
    /\ IsSymmetric(ret.mat)
    /\ IsSymmetric(acc)
    /\ \A c \in 1..Len(fut) : IsSymmetric(fut[c].mat)
    /\ \A S \in SUBSET DoneChunks : IsSymmetric(SumMats(fut, S, 0)[2])

C2_Witness ==
    /\ pc = "return"
    /\ Len(chunks) >= 2
    /\ \E p \in DOMAIN ret.mat : p[1] < p[2] /\ ret.mat[p] # 0

(***************************************************************************)
(* C3: a traversal of the whole dof range emits exactly one triplet at     *)
(* <<r, c>> for every pair of dofs whose supports overlap on every axis,   *)
(* carrying assemble_impl of the pair (evaluated with the smaller linear   *)
(* index first), and no triplet at any other coordinate.                   *)
(***************************************************************************)
ExactTriplets(trips) ==
    \A i \in MultiIndices : \A j \in MultiIndices :
        LET r == to_seq(ndofs, i)
            c == to_seq(ndofs, j)
        IN  IF OverlapOnAllAxes(i, j)
            THEN /\ CountAt(trips, r, c) = 1
                 /\ \A n \in 1..Len(trips) :
                       (trips[n][1] = r /\ trips[n][2] = c) =>
                           trips[n][3] = (IF r <= c THEN assemble_impl(i, j)
                                                    ELSE assemble_impl(j, i))
            ELSE CountAt(trips, r, c) = 0

\* C3 as stated: for tables with non-decreasing left endpoints
C3_ExactTripletsLeftSorted ==
    (pc = "return" /\ num_threads <= 1) => ExactTriplets(ret.trips)

\* C3 (amended): for tables whose left and right endpoints are both
\* non-decreasing (and whose intervals are non-empty)
C3_ExactTriplets ==
    (/\ pc = "return"
     /\ num_threads <= 1
     /\ \A k \in 1..Len(meshsupp) : RightSorted(meshsupp[k]))
        => ExactTriplets(ret.trips)

C3_Witness ==
    /\ pc = "return"
    /\ num_threads <= 1
    /\ \A k \in 1..Len(meshsupp) : RightSorted(meshsupp[k])
    /\ \E i \in MultiIndices : \E j \in MultiIndices :
          i # j /\ OverlapOnAllAxes(i, j)
    /\ \E i \in MultiIndices : \E j \in MultiIndices : ~OverlapOnAllAxes(i, j)
    /\ Len(ret.trips) > NDofsTotal

(***************************************************************************)
(* C5 (as stated): for every table with non-decreasing left endpoints and  *)
(* every i, j lies in the returned range iff support j and support i share *)
(* a mesh element.                                                         *)
(***************************************************************************)
RangeIsOverlapSet ==
    \A j \in 0..(Len(fs_tab) - 1) :
        (fs_out[1] <= j /\ j < fs_out[2])
            <=> ShareElement(fs_tab[j + 1], fs_tab[fs_i + 1])

C5_RangeMatchesBruteForceLeftSorted == fs_i >= 0 => RangeIsOverlapSet

(***************************************************************************)
(* C5 (amended): the same for every table of non-empty intervals whose     *)
(* left and right endpoints are both non-decreasing.                       *)
(***************************************************************************)
C5_RangeMatchesBruteForce ==
    (fs_i >= 0 /\ RightSorted(fs_tab)) => RangeIsOverlapSet

C5_Witness ==
    /\ fs_i >= 0
    /\ RightSorted(fs_tab)
    /\ Len(fs_tab) >= 3
    /\ fs_out[1] > 0
    /\ fs_out[2] < Len(fs_tab)

\* the degenerate tables of the claim: one element; pairwise disjoint supports
C5_WitnessDisjoint ==
    /\ fs_i >= 0
    /\ Len(fs_tab) >= 2
    /\ \A a \in 1..Len(fs_tab) : \A b \in 1..Len(fs_tab) :
          a # b => ~ShareElement(fs_tab[a], fs_tab[b])
    /\ fs_out = <<fs_i, fs_i + 1>>

(***************************************************************************)
(* C7: the chunks of chunk_tasks are non-empty, contiguous and in input    *)
(* order, their concatenation is the input, and every task (axis-0 index)  *)
(* lies in exactly one chunk.                                              *)
(***************************************************************************)
C7_ChunksPartition ==
    ct_done =>
        /\ \A c \in 1..Len(ct_out) : Len(ct_out[c]) >= 1
        /\ Flatten(ct_out) = ct_tasks
        /\ \A t \in {ct_tasks[n] : n \in 1..Len(ct_tasks)} :
              Cardinality({c \in 1..Len(ct_out) :
                              \E n \in 1..Len(ct_out[c]) : ct_out[c][n] = t}) = 1
        /\ \A c \in 1..Len(ct_out) : \A n \in 1..(Len(ct_out[c]) - 1) :
              ct_out[c][n + 1] = ct_out[c][n] + 1

C7_Witness ==
    /\ ct_done
    /\ Len(ct_out) >= 3
    /\ Len(ct_out[1]) >= 2
    /\ Len(ct_out[Len(ct_out)]) < Len(ct_out[1])

(***************************************************************************)
(* C8: from_seq(to_seq(I)) = I and to_seq(from_seq(k)) = k, axis 0 varying *)
(* slowest (the scalar is the row-major rank of the multi-index), and the  *)
(* free function from_seq3 agrees with BaseAssembler3D.from_seq.           *)
(***************************************************************************)
\* the number of multi-indices of the grid that precede I lexicographically
LexLess(I, J) ==
    \E k \in 1..Len(I) : I[k] < J[k] /\ \A m \in 1..(k - 1) : I[m] = J[m]

LexRank(nd, I) == Cardinality({J \in GridOf(nd) : LexLess(J, I)})

C8_RoundTrip ==
    /\ sq_op = "to_from" =>
          /\ sq_out = sq_in
          /\ sq_mid[1] = LexRank(sq_nd, sq_in)
          /\ sq_mid[1] < ProdSeq(sq_nd)
    /\ sq_op = "from_to" =>
          /\ sq_out = sq_in
          /\ sq_mid \in GridOf(sq_nd)
          /\ LexRank(sq_nd, sq_mid) = sq_in[1]
    /\ (sq_op = "from_to" /\ Len(sq_nd) = 3) => sq_free = sq_mid
    /\ (sq_op = "to_from" /\ Len(sq_nd) = 3) => sq_free = sq_in

C8_Witness ==
    /\ sq_op = "from_to"
    /\ Len(sq_nd) = 3
    /\ sq_nd[1] # sq_nd[2] /\ sq_nd[2] # sq_nd[3]
    /\ \A k \in 1..3 : sq_mid[k] > 0
    /\ sq_free = sq_mid

C8_Witness2D ==
    /\ sq_op = "to_from"
    /\ Len(sq_nd) = 2
    /\ sq_nd[1] # sq_nd[2]
    /\ sq_in[1] > 0 /\ sq_in[2] > 0

(***************************************************************************)
(* C6: assemble_impl(i, j) returns 0.0 without a kernel call exactly when  *)
(* the two supports share no mesh element on some axis; otherwise it calls *)
(* the kernel of its class exactly once, on the nodes of the shared        *)
(* elements of every axis.                                                 *)
(***************************************************************************)
SharedElements(k, i, j) ==
    LET si == meshsupp[k][i[k] + 1]
        sj == meshsupp[k][j[k] + 1]
    IN  (si[1]..(si[2] - 1)) \cap (sj[1]..(sj[2] - 1))

NodesOf(E) == {nqp * e + q : e \in E, q \in 0..(nqp - 1)}

C6_ZeroIffDisjoint ==
    ai_i # <<>> =>
        IF \E k \in 1..Len(ndofs) : SharedElements(k, ai_i, ai_j) = {}
        THEN ai_run.val = 0 /\ ai_run.calls = <<>>
        ELSE /\ Len(ai_run.calls) = 1
             /\ ai_run.calls[1].fn = kernel
             /\ \A k \in 1..Len(ndofs) :
                   (ai_run.calls[1].g_sta[k])..(ai_run.calls[1].g_end[k] - 1)
                       = NodesOf(SharedElements(k, ai_i, ai_j))

C6_Witness ==
    /\ ai_i # <<>>
    /\ ai_i # ai_j
    /\ Len(ai_run.calls) = 1
    /\ \E k \in 1..Len(ndofs) :
          ai_run.calls[1].g_end[k] - ai_run.calls[1].g_sta[k] >= 2 * nqp
    /\ \E k \in 1..Len(ndofs) : ai_run.calls[1].g_sta[k] > 0

\* supports that touch without overlapping: no kernel call
C6_WitnessTouching ==
    /\ ai_i # <<>>
    /\ ai_run.calls = <<>>
    /\ \E k \in 1..Len(ndofs) :
          meshsupp[k][ai_i[k] + 1][2] = meshsupp[k][ai_j[k] + 1][1]

(***************************************************************************)
(* C4: multi_assemble returns an array as long as its input whose k-th     *)
(* entry is assemble of the k-th pair, whatever the thread count is and    *)
(* whenever it was changed.  (Stated for the calls that return.)           *)
(***************************************************************************)
C4_ResultIsAssembleOfEachPair ==
    ma_st = "returned" =>
        /\ Len(ma_result) = Len(ma_indices)
        /\ \A k \in 1..Len(ma_indices) :
              ma_result[k] = assemble(ma_indices[k][1], ma_indices[k][2])

(***************************************************************************)
(* C9: result holds one entry per maximal run of consecutive identical     *)
(* index tuples of the stream, in stream order, each the sum of the values *)
(* of its run.  (Stated for accumulators with at least one compared        *)
(* component and a buffer with room for every run.)                        *)
(***************************************************************************)
RECURSIVE RunSums(_)
RunSums(stream) ==
    IF stream = <<>> THEN <<>>
    ELSE LET n == Len(stream)
             before == RunSums(SubSeq(stream, 1, n - 1))
         IN  IF n > 1 /\ stream[n].ix = stream[n - 1].ix
             THEN [before EXCEPT ![Len(before)] = @ + stream[n].val]
             ELSE Append(before, stream[n].val)

C9_ResultIsRunSums ==
    (/\ mea_st = "ok"
     /\ mea_num_indices >= 1
     /\ Len(RunSums(mea_stream)) <= mea_cap)
        => result = RunSums(mea_stream)

(***************************************************************************)
(* C10: prepare_tile_indices3 returns, pair by pair in input order, one    *)
(* row (i, j, t) for every tile t of the product of the per-axis support   *)
(* intersections of the pair and no other row.                             *)
(***************************************************************************)
TileIndexOf(k) ==
    CHOOSE I \in GridOf(tile_nd) : to_seq3m(tile_nd, I) = k

TileSet(p) ==
    LET I == TileIndexOf(p[1])
        J == TileIndexOf(p[2])
        E(r) == LET si == tile_ms[r][I[r] + 1]
                    sj == tile_ms[r][J[r] + 1]
                IN  (si[1]..(si[2] - 1)) \cap (sj[1]..(sj[2] - 1))
    IN  {I \o J \o <<t0, t1, t2>> : t0 \in E(1), t1 \in E(2), t2 \in E(3)}

TileOffset(k) ==
    SumSeq([m \in 1..(k - 1) |-> Cardinality(TileSet(tile_ij[m]))])

C10_RowsArePerPairTiles ==
    tile_st # "none" =>
        /\ tile_st = "returned"
        /\ Len(tile_out) = TileOffset(Len(tile_ij) + 1)
        /\ \A k \in 1..Len(tile_ij) :
              {tile_out[r] : r \in (TileOffset(k) + 1)..TileOffset(k + 1)}
                  = TileSet(tile_ij[k])

(***************************************************************************)
(* C11: under every interleaving of first callers of get_thread_pool at    *)
(* most one pool is constructed, every caller obtains that pool, and       *)
(* _threadpool, once set, is never replaced.                               *)
(***************************************************************************)
C11_OnePoolForAll ==
    /\ Len(gp_pools) <= 1
    /\ \A c \in DOMAIN gp_got : \A e \in DOMAIN gp_got :
          (gp_got[c] # 0 /\ gp_got[e] # 0) => gp_got[c] = gp_got[e]
    /\ \A c \in DOMAIN gp_got : gp_got[c] # 0 => gp_got[c] = gp_threadpool

(***************************************************************************)
(* C12: when the traversal of a chunk fails, the failure reaches the       *)
(* caller of the parallel driver only after every other dispatched chunk   *)
(* has completed or failed, and no matrix is returned.                     *)
(***************************************************************************)
C12_RaisedAfterAllChunks ==
    pc = "raised" =>
        /\ \A c \in 1..Len(fut) : fut[c].st \in {"done", "failed"}
        /\ ret.mat = EmptyMat

\* the part of C12 the driver does keep: a failure returns no matrix
C12_NoMatrixOnFailure == pc = "raised" => (ret.mat = EmptyMat /\ ret.trips = <<>>)

(***************************************************************************)
(* C13: constructing a mass or stiffness assembler fails whenever the      *)
(* Jacobian determinant is zero or NaN at a sampled node.                  *)
(***************************************************************************)
DetUsable(x) == x.k = "fin" /\ x.v # 0

C13_SingularJacobianFails ==
    cons_pc = "constructed" =>
        \A n \in 1..Len(cons_jac) : DetUsable(determinants(cons_jac[n]))

\* what the constructors do with such a Jacobian: it is stored, as a zero
\* or NaN weight (mass) or as a NaN metric (stiffness)
C13_DegenerateWeightsStored ==
    (cons_pc = "constructed" /\ cons_nkvs = ClsDim(cons_cls)) =>
        \A n \in 1..Len(cons_jac) :
            ~DetUsable(determinants(cons_jac[n])) =>
                IF ClsIsStiffness(cons_cls)
                THEN \A j \in 1..ClsDim(cons_cls) : \A l \in 1..ClsDim(cons_cls) :
                        cons_weights[n][j][l].k = "nan"
                ELSE cons_weights[n] \in {DFin(0), DNaN}

(***************************************************************************)
(* C14: constructing a d-dimensional assembler with a geometry of another  *)
(* dimension, or with a number of knot vectors other than d, fails before  *)
(* any basis or geometry tensor is computed; no assembler results.         *)
(***************************************************************************)
CtorMismatch == cons_geodim # ClsDim(cons_cls) \/ cons_nkvs # ClsDim(cons_cls)

C14_DimensionChecked ==
    (cons_pc # "none"
        /\ (cons_geodim # ClsDim(cons_cls)
            \/ (ClsDim(cons_cls) = 3 /\ cons_nkvs # 3))) =>
    cons_pc \in {"init", "base_init", "raised"}

(***************************************************************************)
(* C15: the entry for (i, j) equals the entry for (j, i), for the mass     *)
(* kernels and, given a symmetric metric at every node, for the stiffness  *)
(* kernels.  As stated (equality of the doubles returned):                 *)
(***************************************************************************)
KernStiff == kn_kind \in {"stiff_2d", "stiff_3d"}

\* Bptr[r*d + c] = Bptr[c*d + r] at every node
MetricSymmetric ==
    LET d == IF kn_kind = "stiff_2d" THEN 2 ELSE 3
        sym(Bptr) == \A r \in 0..(d - 1) : \A c \in 0..(d - 1) :
                        Bptr[r * d + c + 1] = Bptr[c * d + r + 1]
    IN  IF kn_kind = "stiff_2d" THEN sym(kn_W[1][1]) ELSE sym(kn_W[1][1][1])

C15_EntriesEqual ==
    (kn_out # <<>> /\ (KernStiff => MetricSymmetric)) => kn_out.uv = kn_out.vu

\* C15, amended: the two entries are the same real number (they agree in
\* exact arithmetic), and the doubles agree when u and v have the same
\* samples; in general the doubles differ by rounding, because the factors
\* of u and of v are multiplied in a different order.
C15_EntriesEqualExactly ==
    (kn_out # <<>> /\ (KernStiff => MetricSymmetric)) =>
        /\ kn_out.uv_exact = kn_out.vu_exact
        /\ kn_Vu = kn_Vv => kn_out.uv = kn_out.vu

C15_Witness ==
    /\ kn_out # <<>>
    /\ kn_kind = "stiff_3d"
    /\ MetricSymmetric
    /\ kn_Vu # kn_Vv
    /\ kn_out.uv_exact = kn_out.vu_exact
    /\ kn_out.uv_exact # 0

\* a mass entry whose two doubles differ
C15_WitnessRounding ==
    /\ kn_out # <<>>
    /\ kn_kind = "mass_2d"
    /\ kn_out.uv # kn_out.vu
    /\ kn_out.uv_exact = kn_out.vu_exact

(***************************************************************************)
(* C16: after construction no operation changes any member of the          *)
(* assembler (quadrature count, dof counts, mesh-support tables, tensors   *)
(* and any other member).  As stated, with _asm_pool among the members:    *)
(***************************************************************************)
C16_NoMemberChanges ==
    [][asmVars' = asmVars /\ ma_asm_pool' = ma_asm_pool]_vars

\* C16, amended: nqp, ndofs, meshsupp and the tensors never change; the
\* member _asm_pool is assigned by multi_assemble, once, by the first call
\* that takes the pooled branch.
C16_OnlyAsmPoolAssignedOnce ==
    [][/\ asmVars' = asmVars
       /\ ma_asm_pool' # ma_asm_pool =>
            (ma_asm_pool = 0 /\ ma_num_threads > 1 /\ ma_indices # <<>>)]_vars

\* a direct call after a pooled one: the handle list is there, the fields
\* are those of the construction
C16_Witness ==
    /\ ma_st = "returned"
    /\ ma_asm_pool # 0
    /\ ma_num_threads <= 1
    /\ nqp = MaxOfSet({KvDegree(meshsupp[k]) : k \in 1..Len(meshsupp)}) + 1
    /\ ndofs = [k \in 1..Len(meshsupp) |-> Len(meshsupp[k])]

(***************************************************************************)
(* C17: for every worker count W > 1 and every axis-0 dof count the        *)
(* parallel driver dispatches exactly 4W chunks.  As stated:               *)
(***************************************************************************)
Dispatched == pc \in {"sum", "return"} /\ num_threads > 1

C17_Exactly4WChunks == Dispatched => Len(chunks) = 4 * num_threads

\* C17, amended: with n the axis-0 dof count and s = n div 4W + 1 the chunk
\* length, the driver dispatches ceil(n / s) chunks: at least one, never
\* more than 4W, and one chunk per dof when n < 4W.
C17_ChunkCount ==
    Dispatched =>
        LET n == ndofs[1]
            s == (n \div (4 * num_threads)) + 1
        IN  /\ Len(chunks) = (n + s - 1) \div s
            /\ 1 <= Len(chunks) /\ Len(chunks) <= 4 * num_threads
            /\ n < 4 * num_threads => Len(chunks) = n

\* 8 dofs on axis 0 and W = 2: four chunks of two dofs, not eight
C17_Witness ==
    /\ Dispatched
    /\ ndofs[1] = 4 * num_threads
    /\ Len(chunks) = 4
    /\ \A c \in 1..Len(chunks) : Len(chunks[c]) = 2

(***************************************************************************)
(* C18: no chunk matrix is added into the running sum before every         *)
(* dispatched chunk traversal has completed (join barrier).  As stated:    *)
(***************************************************************************)
C18_JoinBarrier ==
    (Dispatched /\ nsum > 0) => \A c \in 1..Len(fut) : fut[c].st = "done"

\* C18, amended: the calling thread adds the chunk matrices in submission
\* order, each one once its own traversal (and so every earlier one it has
\* already added) has completed, while later chunks may still be pending
\* or running; only the return waits for all of them.
C18_SumInSubmissionOrder ==
    Dispatched =>
        /\ \A c \in 1..nsum : fut[c].st = "done"
        /\ pc = "return" =>
              (nsum = Len(fut) /\ \A c \in 1..Len(fut) : fut[c].st = "done")

\* the first matrix is in the sum while a later chunk has not started
C18_Witness ==
    /\ Dispatched
    /\ pc = "sum"
    /\ nsum > 0
    /\ \E c \in 1..Len(fut) : fut[c].st = "pending"
    /\ \E c \in 1..Len(fut) : fut[c].st = "running"

(***************************************************************************)
(* C19: rows are visited in lexicographic order with axis 0 most           *)
(* significant, so ii is strictly increasing during one call, and within   *)
(* a row jj is strictly increasing.  As stated:                            *)
(***************************************************************************)
SeqIncreasing(s) == \A k \in 1..(Len(s) - 1) : s[k] < s[k + 1]

C19_LinearIndexIncreasing ==
    /\ SeqIncreasing([k \in 1..Len(tr_rows) |-> to_seq(ndofs, tr_rows[k])])
    /\ \A r \in 1..Len(tr_cols) :
          SeqIncreasing([k \in 1..Len(tr_cols[r]) |-> to_seq(ndofs, tr_cols[r][k])])

\* I before J when the last component in which they differ is smaller in I
ColexLess(I, J) ==
    \E k \in 1..Len(I) : I[k] < J[k] /\ \A m \in (k + 1)..Len(I) : I[m] = J[m]

ColexIncreasing(s) == \A k \in 1..(Len(s) - 1) : ColexLess(s[k], s[k + 1])

\* C19, amended: rows and, within a row, columns are visited in
\* colexicographic order: axis 0 varies fastest and the last axis is the
\* most significant one.  Since to_seq makes axis 0 the most significant
\* digit of ii, neither ii nor jj is increasing in general.
C19_ColexOrder ==
    /\ ColexIncreasing(tr_rows)
    /\ \A r \in 1..Len(tr_cols) : ColexIncreasing(tr_cols[r])

\* a finished 2 x 2 traversal: rows (0,0), (1,0), (0,1), (1,1), ii = 0, 2, 1, 3
C19_Witness ==
    /\ tr_pc = "done"
    /\ ndofs = <<2, 2>>
    /\ tr_rows = <<<<0, 0>>, <<1, 0>>, <<0, 1>>, <<1, 1>>>>
    /\ \E r \in 1..Len(tr_cols) : Len(tr_cols[r]) = 4

(***************************************************************************)
(* C20: every generic_assemble call terminates; the row loop visits each   *)
(* multi-index of chunk x full ranges of the other axes exactly once, the  *)
(* column loop of a row each multi-index of its neighbor box exactly once, *)
(* and no index outside [start, end) of any axis is visited.               *)
(***************************************************************************)
\* the multi-indices I with start[k] <= I[k] < end[k] on every axis
BoxOf(start, end) ==
    {I \in [1..Len(start) -> 0..MaxOfSet({end[k] : k \in 1..Len(end)})] :
        \A k \in 1..Len(start) : start[k] <= I[k] /\ I[k] < end[k]}

RowBox == BoxOf(DofStart(tr_start), DofEnd(tr_end))

ColBox(i) ==
    BoxOf([k \in 1..Len(ndofs) |-> NeighborBox(i)[k][1]],
          [k \in 1..Len(ndofs) |-> NeighborBox(i)[k][2]])

NoRepeat(s) == \A a \in 1..Len(s) : \A b \in 1..Len(s) : s[a] = s[b] => a = b

Elems(s) == {s[k] : k \in 1..Len(s)}

\* nothing outside the ranges, nothing twice; a finished row has its whole
\* neighbor box, a finished call the whole row box
TravVisits ==
    /\ NoRepeat(tr_rows) /\ Elems(tr_rows) \subseteq RowBox
    /\ \A r \in 1..Len(tr_cols) :
          /\ NoRepeat(tr_cols[r]) /\ Elems(tr_cols[r]) \subseteq ColBox(tr_rows[r])
          /\ (r < Len(tr_cols) \/ tr_pc \in {"rownext", "done"}) =>
                Elems(tr_cols[r]) = ColBox(tr_rows[r])
    /\ tr_pc = "done" => (Elems(tr_rows) = RowBox /\ Len(tr_cols) = Len(tr_rows))

C20_TerminatesVisitingEachOnce == []TravVisits /\ <>(tr_pc = "done")

\* a finished call on a chunk of a 3-D assembler with several rows and a
\* row whose neighbor box is not the whole grid
C20_Witness ==
    /\ tr_pc = "done"
    /\ Len(ndofs) = 3
    /\ tr_start >= 0
    /\ Len(tr_rows) > 1
    /\ Elems(tr_rows) = RowBox
    /\ \E r \in 1..Len(tr_rows) :
          1 < Len(tr_cols[r]) /\ Len(tr_cols[r]) < NDofsTotal

(***************************************************************************)
(* C21: the accumulator keeps its current tuple and cursor between calls:  *)
(* process(A) followed by process(B) leaves the same result as one call    *)
(* process(A \o B), also when a run of equal tuples straddles the split.   *)
(***************************************************************************)
\* one call of process on the whole stream, from the state __init__ leaves
\* with the buffer contents empty
OneCall(empty, stream) ==
    ProcessLoop([idx |-> -1,
                 res |-> empty,
                 old |-> [k \in 1..NumOldIndices |-> Sentinel],
                 oob |-> FALSE], stream)

\* the part of a buffer the property result returns for a cursor
ResultOf(buf, cursor) == SubSeq(buf, 1, Min2(Max2(cursor + 1, 0), mea_cap))

C21_SplitEqualsOneCall ==
    mea_st = "ok" =>
        \A empty \in [1..mea_cap -> Garbage] :
        LET one == OneCall(empty, mea_stream) IN
        /\ mea_idx = one.idx
        /\ mea_old_indices = one.old
        /\ result = ResultOf(one.res, one.idx)
        /\ mea_oob = one.oob

\* two calls, the second of which continues the run the first one ended with
C21_Witness ==
    /\ mea_st = "ok"
    /\ ~mea_oob
    /\ Len(mea_calls) = 2
    /\ mea_num_indices >= 1
    /\ mea_stream[mea_calls[1]].ix = mea_stream[mea_calls[1] + 1].ix
    /\ mea_stream[mea_calls[1]].ix[1] # Sentinel
    /\ result = RunSums(mea_stream)
    /\ Len(result) < Len(mea_stream)

(***************************************************************************)
(* C22: every write of process goes to a position in 0..N-1: the first     *)
(* element ever processed opens entry 0 whatever its index tuple is, and   *)
(* the cursor stays below N while the stream has at most N runs.           *)
(***************************************************************************)
C22_WritesInBuffer ==
    Len(RunSums(mea_stream)) <= mea_cap =>
        /\ ~mea_oob
        /\ mea_stream # <<>> => mea_idx >= 0

\* what the code does guarantee: the writes stay inside the buffer when at
\* least one component is compared and the first tuple differs from the
\* initial contents of old_indices in a compared component
C22_WritesInBufferUnlessSentinel ==
    (/\ Len(RunSums(mea_stream)) <= mea_cap
     /\ mea_num_indices >= 1
     /\ mea_stream # <<>>
     /\ \E k \in 1..mea_num_indices : mea_stream[1].ix[k] # Sentinel)
        => (~mea_oob /\ mea_idx >= 0 /\ mea_idx < mea_cap)

(***************************************************************************)
(* C23: for every support table and every index i the range [lo, hi)       *)
(* returned by find_joint_support_functions satisfies                      *)
(* 0 <= lo <= i < hi <= n; so every row has at least one column, and the   *)
(* traversal emits the diagonal triplet (ii, ii) exactly once for every    *)
(* row of its chunk.                                                       *)
(***************************************************************************)
RangeContainsIndex ==
    \A k \in 1..Len(meshsupp) : \A i \in 0..(Len(meshsupp[k]) - 1) :
        LET intv == find_joint_support_functions(meshsupp[k], i) IN
        0 <= intv[1] /\ intv[1] <= i /\ i < intv[2] /\ intv[2] <= Len(meshsupp[k])

\* the rows of the traversal of the chunk start..stop-1 of axis 0
RowsOfChunk(start, stop) == {I \in MultiIndices : start <= I[1] /\ I[1] < stop}

\* exactly the rows of the chunk have a diagonal triplet, and have one
DiagonalOnce(trips, start, stop) ==
    \A I \in MultiIndices :
        CountAt(trips, to_seq(ndofs, I), to_seq(ndofs, I))
            = IF I \in RowsOfChunk(start, stop) THEN 1 ELSE 0

C23_RangeContainsIndexDiagonalOnce ==
    /\ RangeContainsIndex
    /\ \A c \in 1..Len(fut) :
          fut[c].st = "done" =>
              DiagonalOnce(fut[c].trips, chunks[c][1], chunks[c][Len(chunks[c])] + 1)
    /\ (pc = "return" /\ num_threads <= 1) => DiagonalOnce(ret.trips, 0, ndofs[1])

\* two finished chunks of an assembler in which some function overlaps a
\* neighbor and some function overlaps only itself
C23_Witness ==
    /\ pc = "return"
    /\ Len(fut) > 1
    /\ \A c \in 1..Len(fut) : fut[c].st = "done" /\ Len(fut[c].trips) > 0
    /\ \E k \in 1..Len(meshsupp) : \E i \in 0..(Len(meshsupp[k]) - 1) :
          find_joint_support_functions(meshsupp[k], i)[2]
              - find_joint_support_functions(meshsupp[k], i)[1] > 1
    /\ \E k \in 1..Len(meshsupp) : \E i \in 0..(Len(meshsupp[k]) - 1) :
          find_joint_support_functions(meshsupp[k], i) = <<i, i + 1>>

====
